---------------------------- MODULE Spec2Model ----------------------------
(***************************************************************************)
(* A model of the resume analysis pipeline of Resume-Analyzer-MLOps:       *)
(*   src/src/resume_parser.py  (ResumeParser)                              *)
(*   src/src/nlp_processor.py  (NLPProcessor)                              *)
(*   src/src/ats_scorer.py     (ATSScorer)                                 *)
(*   src/src/job_matcher.py    (JobMatcher)                                *)
(* Texts are sequences of one-character strings.  Regular expressions are  *)
(* modelled by what Python's re module computes for them on such a text.   *)
(***************************************************************************)
EXTENDS Integers, Sequences, FiniteSets, TLC

(***************************************************************************)
(* Characters and the character classes of Python's re module (ASCII).     *)
(***************************************************************************)
\* the function f on 1..n as a sequence (TLC then holds it as a tuple, which
\* it indexes and measures in constant time)
AsSeq(f) == <<>> \o f
\* A string literal as a sequence of one-character strings.
Chars(s) == AsSeq([i \in 1..Len(s) |-> SubSeq(s, i, i)])

UpperLetters == Chars("ABCDEFGHIJKLMNOPQRSTUVWXYZ")
LowerLetters == Chars("abcdefghijklmnopqrstuvwxyz")
Range(f) == {f[i] : i \in DOMAIN f}
UpperSet == Range(UpperLetters)
LowerSet == Range(LowerLetters)
DigitSet == Range(Chars("0123456789"))
\* the capital I with a dot above (U+0130), a letter outside ASCII, and the
\* combining dot above (U+0307), which is no letter
CapitalIDot == "U+0130"
CombiningDot == "U+0307"
\* \w
WordSet == UpperSet \cup LowerSet \cup DigitSet \cup {"_", CapitalIDot}
\* \s
SpaceSet == {" ", "\t", "\n", "\r", "\f"}
IsWord(c) == c \in WordSet
IsSpace(c) == c \in SpaceSet
IsDigit(c) == c \in DigitSet

\* str.lower() and str.upper() on one character
LowerChar(c) ==
  IF c \in UpperSet
    THEN LowerLetters[CHOOSE i \in DOMAIN UpperLetters : UpperLetters[i] = c]
    ELSE c
UpperChar(c) ==
  IF c \in LowerSet
    THEN UpperLetters[CHOOSE i \in DOMAIN LowerLetters : LowerLetters[i] = c]
    ELSE c
\* str.lower(): a character each for the letters A to Z, and the two
\* characters 'i' and U+0307 for U+0130, so that the text grows by one
\* character for each U+0130 in it
Lower(t) ==
  LET dotted == {i \in 1..Len(t) : t[i] = CapitalIDot}
      At(i) == i + Cardinality({k \in dotted : k < i})
      Source(j) == CHOOSE i \in 1..Len(t) :
                     j = At(i) \/ (i \in dotted /\ j = At(i) + 1)
  IN IF dotted = {} THEN AsSeq([i \in 1..Len(t) |-> LowerChar(t[i])])
     ELSE AsSeq([j \in 1..(Len(t) + Cardinality(dotted)) |->
                   IF Source(j) \notin dotted THEN LowerChar(t[Source(j)])
                   ELSE IF j = At(Source(j)) THEN "i" ELSE CombiningDot])
\* str.upper()
Upper(t) == AsSeq([i \in 1..Len(t) |-> UpperChar(t[i])])

\* pat occurs in t starting at position i
MatchAt(t, pat, i) ==
  /\ i >= 1
  /\ i + Len(pat) - 1 <= Len(t)
  /\ \A k \in 1..Len(pat) : t[i + k - 1] = pat[k]
\* Python's `pat in t`
Contains(t, pat) ==
  \/ pat = <<>>
  \/ \E i \in 1..(Len(t) - Len(pat) + 1) : t[i] = pat[1] /\ MatchAt(t, pat, i)

\* \b between positions i-1 and i of t (i in 1..Len(t)+1)
WordBoundary(t, i) ==
  LET before == i >= 2 /\ i - 1 <= Len(t) /\ IsWord(t[i - 1])
      after == i >= 1 /\ i <= Len(t) /\ IsWord(t[i])
  IN before # after

\* the elements of a finite set of integers in increasing order
RECURSIVE SortedSeq(_)
SortedSeq(S) ==
  IF S = {} THEN <<>>
  ELSE LET m == CHOOSE x \in S : \A y \in S : x <= y
       IN <<m>> \o SortedSeq(S \ {m})

\* the concatenation of a sequence of texts, sep between neighbours
RECURSIVE Join(_, _)
Join(parts, sep) ==
  IF Len(parts) = 0 THEN <<>>
  ELSE IF Len(parts) = 1 THEN parts[1]
  ELSE parts[1] \o sep \o Join(Tail(parts), sep)

(***************************************************************************)
(* ResumeParser (src/src/resume_parser.py)                                 *)
(***************************************************************************)
\* re.sub(r'\s+', ' ', text), from position i on
SubWhitespace(t, i) ==
  LET Starts(k) == ~(IsSpace(t[k]) /\ k > 1 /\ IsSpace(t[k - 1]))
      kept == SelectSeq([k \in 1..(Len(t) + 1 - i) |-> k + i - 1], Starts)
  IN AsSeq([j \in 1..Len(kept) |->
              IF IsSpace(t[kept[j]]) THEN " " ELSE t[kept[j]]])

\* the characters the class [\w\s\.,;:\-\(\)@/] holds
KeptPunctuation == {".", ",", ";", ":", "-", "(", ")", "@", "/"}
IsKept(c) == IsWord(c) \/ IsSpace(c) \/ c \in KeptPunctuation
\* a substitution that removes nothing
SubSpecial_KeepAll(t) == t
\* re.sub(r'[^\w\s\.,;:\-\(\)@/]', '', text)
SubSpecial(t) == SelectSeq(t, IsKept)

\* text.replace(old, new) for a one- or two-character old and one-character new
Replace(t, old, new, i) ==
  LET Found(k) == k >= i /\ MatchAt(t, old, k)
      \* a match starts at k when old is found there and k does not lie in
      \* the match before it
      Starts(k) ==
        /\ Found(k)
        /\ (Len(old) = 2 =>
              Cardinality({j \in i..(k - 1) : \A m \in j..(k - 1) : Found(m)})
                % 2 = 0)
      Left(k) == ~(Len(old) = 2 /\ k > i /\ Starts(k - 1))
      kept == SelectSeq([k \in 1..(Len(t) + 1 - i) |-> k + i - 1], Left)
  IN AsSeq([j \in 1..Len(kept) |->
              IF Starts(kept[j]) THEN new[1] ELSE t[kept[j]]])
NormalizeBreaks(t) ==
  Replace(Replace(t, <<"\r", "\n">>, <<"\n">>, 1), <<"\r">>, <<"\n">>, 1)

\* str.strip()
Strip(t) ==
  LET ink == {i \in 1..Len(t) : ~IsSpace(t[i])}
  IN IF ink = {} THEN <<>>
     ELSE SubSeq(t, CHOOSE i \in ink : \A j \in ink : i <= j,
                    CHOOSE i \in ink : \A j \in ink : i >= j)

\* ResumeParser.clean_text
clean_text(t) == Strip(NormalizeBreaks(SubSpecial(SubWhitespace(t, 1))))

(***************************************************************************)
(* NLPProcessor (src/src/nlp_processor.py)                                 *)
(***************************************************************************)
\* NLPProcessor.TECH_SKILLS: a dict, which keeps its insertion order
TECH_SKILLS == <<
  [category |-> "programming", skills |-> <<
       "python", "java", "javascript", "typescript", "c++", "c#",
       "ruby", "go", "rust", "php", "swift", "kotlin", "scala", "r",
       "matlab", "sql", "bash">>],
  [category |-> "web", skills |-> <<
       "html", "css", "react", "angular", "vue.js", "node.js",
       "express", "django", "flask", "fastapi", "spring", "asp.net",
       "jquery">>],
  [category |-> "data_science", skills |-> <<
       "machine learning", "deep learning", "neural networks", "nlp",
       "computer vision", "tensorflow", "pytorch", "keras",
       "scikit-learn", "pandas", "numpy", "matplotlib", "seaborn",
       "data analysis", "statistical analysis", "predictive modeling">>],
  [category |-> "cloud", skills |-> <<
       "aws", "azure", "gcp", "google cloud", "docker", "kubernetes",
       "terraform", "jenkins", "ci/cd", "devops", "lambda", "s3", "ec2">>],
  [category |-> "database", skills |-> <<
       "mysql", "postgresql", "mongodb", "redis", "cassandra",
       "dynamodb", "oracle", "sql server", "sqlite", "elasticsearch">>],
  [category |-> "tools", skills |-> <<
       "git", "github", "gitlab", "jira", "confluence", "slack",
       "linux", "windows", "macos", "vscode", "jupyter", "postman">>],
  [category |-> "soft_skills", skills |-> <<
       "leadership", "communication", "teamwork", "problem solving",
       "critical thinking", "project management", "agile", "scrum",
       "collaboration", "presentation", "negotiation">>]
>>

\* re.search(r'\b' + re.escape(skill) + r'\b', text_lower)
SkillPatternFound(text_lower, skill) ==
  LET pat == Chars(skill)
  IN \E i \in 1..(Len(text_lower) - Len(pat) + 1) :
       /\ WordBoundary(text_lower, i)
       /\ MatchAt(text_lower, pat, i)
       /\ WordBoundary(text_lower, i + Len(pat))

\* (mutant) every category is stored, the `if found:` test left out
extract_skills_KeepEmpty(t) ==
  LET text_lower == Lower(t)
      Found(skill) == SkillPatternFound(text_lower, skill)
  IN [k \in DOMAIN TECH_SKILLS |->
        [category |-> TECH_SKILLS[k].category,
         skills |-> SelectSeq(TECH_SKILLS[k].skills, Found)]]
\* NLPProcessor.extract_skills: the dict found_skills as the sequence of its
\* items in insertion order
extract_skills(t) ==
  LET text_lower == Lower(t)
      Found(skill) == SkillPatternFound(text_lower, skill)
      perCategory == [k \in DOMAIN TECH_SKILLS |->
                        [category |-> TECH_SKILLS[k].category,
                         skills |-> SelectSeq(TECH_SKILLS[k].skills, Found)]]
      NonEmpty(item) == item.skills # <<>>
  IN SelectSeq(perCategory, NonEmpty)

\* int() of a string of decimal digits
DigitValue(c) == CHOOSE d \in 0..9 : Chars("0123456789")[d + 1] = c
RECURSIVE IntOf(_)
IntOf(digits) ==
  IF Len(digits) = 0 THEN 0
  ELSE 10 * IntOf(SubSeq(digits, 1, Len(digits) - 1))
       + DigitValue(digits[Len(digits)])

\* a match of r'\b(19|20)\d{2}\b' starts at position i
YearPatternAt(t, i) ==
  /\ WordBoundary(t, i)
  /\ i + 3 <= Len(t)
  /\ SubSeq(t, i, i + 1) \in {<<"1", "9">>, <<"2", "0">>}
  /\ IsDigit(t[i + 2])
  /\ IsDigit(t[i + 3])
  /\ WordBoundary(t, i + 4)
\* re.findall(r'\b(19|20)\d{2}\b', text): the pattern has one group, so
\* findall returns what the group matched, once per match, in text order
FindallYears(t) ==
  LET starts == SortedSeq({i \in 1..Len(t) : YearPatternAt(t, i)})
  IN [k \in 1..Len(starts) |-> SubSeq(t, starts[k], starts[k] + 1)]

SeqMin(s) == CHOOSE x \in Range(s) : \A y \in Range(s) : x <= y
SeqMax(s) == CHOOSE x \in Range(s) : \A y \in Range(s) : x >= y
Min2(a, b) == IF a <= b THEN a ELSE b
Max2(a, b) == IF a >= b THEN a ELSE b

\* the cap of calculate_experience_years
MaxExperienceYears == 50
\* NLPProcessor.calculate_experience_years
calculate_experience_years(t) ==
  LET found == FindallYears(t)
      years == [k \in 1..Len(found) |-> IntOf(found[k])]
  IN IF Len(years) < 2 THEN 0
     ELSE Min2(SeqMax(years) - SeqMin(years), MaxExperienceYears)

(***************************************************************************)
(* Exact fractions for the scores Python computes in floating point        *)
(***************************************************************************)
RECURSIVE GCD(_, _)
GCD(a, b) == IF b = 0 THEN a ELSE GCD(b, a % b)
\* the fraction n/d, d > 0, in lowest terms
Frac(n, d) ==
  LET g == GCD(IF n < 0 THEN -n ELSE n, d)
  IN [num |-> n \div g, den |-> d \div g]
FracOfInt(n) == Frac(n, 1)
FracEq(a, b) == a.num * b.den = b.num * a.den
FracLt(a, b) == a.num * b.den < b.num * a.den
FracLe(a, b) == a.num * b.den <= b.num * a.den
FracAdd(a, b) == Frac(a.num * b.den + b.num * a.den, a.den * b.den)
FracMul(a, b) == Frac(a.num * b.num, a.den * b.den)

(***************************************************************************)
(* Helpers on texts and lists of strings                                   *)
(***************************************************************************)
\* a sequence of characters as a string, and str.upper() of a string
RECURSIVE Str(_)
Str(cs) == IF Len(cs) = 0 THEN "" ELSE cs[1] \o Str(Tail(cs))
StrLower(s) == Str(Lower(Chars(s)))
StrUpper(s) == Str(Upper(Chars(s)))

\* str(n) of an integer n >= 0
RECURSIVE IntStr(_)
IntStr(n) ==
  IF n < 10 THEN Chars("0123456789")[n + 1]
  ELSE IntStr(n \div 10) \o Chars("0123456789")[(n % 10) + 1]

\* ', '.join(names)
RECURSIVE JoinNames(_)
JoinNames(names) ==
  IF Len(names) = 0 THEN ""
  ELSE IF Len(names) = 1 THEN names[1]
  ELSE names[1] \o ", " \o JoinNames(Tail(names))

\* text.split(c): the pieces of t between the occurrences of character c
SplitOn(t, c) ==
  LET breaks == SortedSeq({i \in 1..Len(t) : t[i] = c})
      From(k) == IF k = 1 THEN 1 ELSE breaks[k - 1] + 1
      To(k) == IF k = Len(breaks) + 1 THEN Len(t) ELSE breaks[k] - 1
  IN [k \in 1..(Len(breaks) + 1) |-> SubSeq(t, From(k), To(k))]

RECURSIVE SumLen(_)
SumLen(pieces) ==
  IF Len(pieces) = 0 THEN 0 ELSE Len(pieces[1]) + SumLen(Tail(pieces))

\* len(text.split()): the number of runs of characters that are not whitespace
WordCount(t) ==
  Cardinality({i \in 1..Len(t) : ~IsSpace(t[i]) /\ (i = 1 \/ IsSpace(t[i - 1]))})

\* the last position of the run of \w characters that holds position i
RECURSIVE WordEnd(_, _)
WordEnd(t, i) == IF i < Len(t) /\ IsWord(t[i + 1]) THEN WordEnd(t, i + 1) ELSE i
\* set(re.findall(r'\b\w+\b', text)): the maximal runs of \w characters
WordsOf(t) ==
  {SubSeq(t, i, WordEnd(t, i)) :
     i \in {j \in 1..Len(t) : IsWord(t[j]) /\ (j = 1 \/ ~IsWord(t[j - 1]))}}

\* len(re.findall(r'\d+', text)): the number of maximal runs of digits
NumberCount(t) ==
  Cardinality({i \in 1..Len(t) : IsDigit(t[i]) /\ (i = 1 \/ ~IsDigit(t[i - 1]))})

\* every character of t from position a to position b is in class
AllIn(t, a, b, class) == \A k \in a..b : t[k] \in class

(***************************************************************************)
(* ATSScorer (src/src/ats_scorer.py)                                       *)
(***************************************************************************)
ESSENTIAL_SECTIONS == <<"experience", "education", "skills", "summary", "contact">>
COMMON_ATS_KEYWORDS ==
  <<"experience", "education", "skills", "professional", "summary",
    "objective", "achievements", "responsibilities", "projects">>
ActionVerbs ==
  <<"led", "managed", "developed", "created", "implemented",
    "designed", "achieved", "improved", "increased", "built">>

\* the thresholds of the format, content and keyword scores
MaxSpecialChars == 50
MinAvgLineLength == 20
MinWordCount == 200
MaxWordCount == 1000
MinNumbers == 5
MinActionVerbs == 3
MinJdWordLen == 4

\* ATSScorer._calculate_format_score
FormatScore(t) ==
  LET special_chars == Cardinality({i \in 1..Len(t) : ~IsKept(t[i])})
      manySpecial == special_chars > MaxSpecialChars
      hasTab == \E i \in 1..Len(t) : t[i] = "\t"
      lines == SplitOn(t, "\n")
      avg_line_length == Frac(SumLen(lines), Max2(Len(lines), 1))
      shortLines == FracLt(avg_line_length, FracOfInt(MinAvgLineLength))
      score == 100 - (IF manySpecial THEN 15 ELSE 0)
                   - (IF hasTab THEN 10 ELSE 0)
                   - (IF shortLines THEN 10 ELSE 0)
  IN [score |-> FracOfInt(Max2(score, 0)),
      issues |->
        (IF manySpecial THEN <<"Too many special characters">> ELSE <<>>)
        \o (IF hasTab THEN <<"Contains tabs (may indicate columns)">> ELSE <<>>)
        \o (IF shortLines THEN <<"Inconsistent line formatting">> ELSE <<>>)
        \o (IF score > 80 THEN <<"Clean, ATS-friendly formatting">> ELSE <<>>)]

\* the test `found` of _calculate_section_score: the four patterns are
\* looked for in the lower-cased text
SectionFound(text_lower, section) ==
  \/ Contains(text_lower, <<"\n">> \o Chars(section))
  \/ Contains(text_lower, <<"\n">> \o Chars(StrUpper(section)))
  \/ Contains(text_lower, Chars(section) \o <<":">>)
  \/ Contains(text_lower, Chars(StrUpper(section)) \o <<":">>)

\* ATSScorer._calculate_section_score
SectionScore(t) ==
  LET text_lower == Lower(t)
      Found(section) == SectionFound(text_lower, section)
      Missing(section) == ~SectionFound(text_lower, section)
      found_sections == SelectSeq(ESSENTIAL_SECTIONS, Found)
      missing_sections == SelectSeq(ESSENTIAL_SECTIONS, Missing)
  IN [score |-> FracMul(Frac(Len(found_sections), Len(ESSENTIAL_SECTIONS)),
                        FracOfInt(100)),
      found_sections |-> found_sections,
      missing_sections |-> missing_sections,
      issues |->
        (IF Len(missing_sections) > 0
           THEN <<"Missing sections: " \o JoinNames(missing_sections)>> ELSE <<>>)
        \o (IF Len(found_sections) = Len(ESSENTIAL_SECTIONS)
              THEN <<"All essential sections present">> ELSE <<>>)]

\* min(base_score, 100)
FracMin(a, b) == IF FracLe(a, b) THEN a ELSE b

\* the words of the job description the keyword score looks for
JdWords(jd) == {w \in WordsOf(Lower(jd)) : Len(w) > MinJdWordLen}
\* a divisor that is the number of those words, none included
JdDivisor_Raw(jd_words) == Cardinality(jd_words)
\* max(len(jd_words), 1), what the number of matching words is divided by
JdDivisor(jd_words) == Max2(Cardinality(jd_words), 1)
\* a score that gives the general keywords and the job description equal weight
AdjustedScore_Even(base_score, match_ratio) ==
  FracAdd(FracMul(base_score, Frac(5, 10)),
          FracMul(FracMul(match_ratio, FracOfInt(100)), Frac(5, 10)))
\* (base_score * 0.4) + (match_ratio * 100 * 0.6)
AdjustedScore(base_score, match_ratio) ==
  FracAdd(FracMul(base_score, Frac(4, 10)),
          FracMul(FracMul(match_ratio, FracOfInt(100)), Frac(6, 10)))

\* ATSScorer._calculate_keyword_score; jd = <<>> stands for no job
\* description (None or '': the code tests `if job_description`)
KeywordScore(t, jd) ==
  LET text_lower == Lower(t)
      InText(keyword) == Contains(text_lower, Chars(keyword))
      found_keywords == SelectSeq(COMMON_ATS_KEYWORDS, InText)
      base_score == FracMul(Frac(Len(found_keywords), Len(COMMON_ATS_KEYWORDS)),
                            FracOfInt(100))
      jd_words == JdWords(jd)
      resume_words == WordsOf(text_lower)
      matching_keywords == jd_words \cap resume_words
      match_ratio == Frac(Cardinality(matching_keywords), JdDivisor(jd_words))
      adjusted == AdjustedScore(base_score, match_ratio)
  IN IF Len(jd) > 0
       THEN [score |-> FracMin(adjusted, FracOfInt(100)),
             found_keywords |-> found_keywords,
             issues |->
               IF FracLt(match_ratio, Frac(3, 10))
                 THEN <<"Low keyword match with job description">>
                 ELSE <<"Good keyword match: "
                        \o IntStr(Cardinality(matching_keywords))
                        \o " relevant terms">>]
       ELSE [score |-> FracMin(base_score, FracOfInt(100)),
             found_keywords |-> found_keywords,
             issues |-> <<"Using general ATS keywords (no job description provided)">>]

\* ATSScorer._calculate_content_score
ContentScore(t) ==
  LET word_count == WordCount(t)
      numbers == NumberCount(t)
      text_lower == Lower(t)
      verb_count == Cardinality({k \in DOMAIN ActionVerbs :
                                   Contains(text_lower, Chars(ActionVerbs[k]))})
      score == 100 - (IF word_count < MinWordCount THEN 30
                      ELSE IF word_count > MaxWordCount THEN 15 ELSE 0)
                   - (IF numbers < MinNumbers THEN 20 ELSE 0)
                   - (IF verb_count < MinActionVerbs THEN 15 ELSE 0)
  IN [score |-> FracOfInt(Max2(score, 0)),
      word_count |-> word_count,
      issues |->
        <<IF word_count < MinWordCount THEN "Resume too short (< 200 words)"
          ELSE IF word_count > MaxWordCount THEN "Resume too long (> 1000 words)"
          ELSE "Appropriate length",
          IF numbers < MinNumbers THEN "Add more quantifiable achievements"
          ELSE "Good use of metrics",
          IF verb_count < MinActionVerbs THEN "Use more action verbs"
          ELSE "Strong action verbs present">>]

\* the character classes of the e-mail pattern
EmailLocalSet == WordSet \cup {".", "%", "+", "-"}
EmailDomainSet == (WordSet \ {"_"}) \cup {".", "-"}
EmailTldSet == UpperSet \cup LowerSet \cup {"|"}
\* re.search(r'\b[A-Za-z0-9._%+-]+@[A-Za-z0-9.-]+\.[A-Z|a-z]{2,}\b', text):
\* some split of some stretch of the text fits the pattern
EmailFound(t) ==
  \E at \in {i \in 1..Len(t) : t[i] = "@"} :
    /\ \E start \in 1..(at - 1) :
         /\ AllIn(t, start, at - 1, EmailLocalSet)
         /\ WordBoundary(t, start)
    /\ \E dot \in {i \in (at + 2)..Len(t) : t[i] = "."} :
         /\ AllIn(t, at + 1, dot - 1, EmailDomainSet)
         /\ \E end \in (dot + 2)..Len(t) :
              /\ AllIn(t, dot + 1, end, EmailTldSet)
              /\ WordBoundary(t, end + 1)

\* the positions a pattern can go on from at p after an optional character of
\* class
AfterOptional(t, p, class) ==
  {p} \cup (IF p <= Len(t) /\ t[p] \in class THEN {p + 1} ELSE {})
\* \d{n} matches at position p
DigitsAt(t, p, n) == p + n - 1 <= Len(t) /\ AllIn(t, p, p + n - 1, DigitSet)
PhoneSeparators == {"-", "."} \cup SpaceSet
\* re.search(r'(\+\d{1,3}[-.\s]?)?\(?\d{3}\)?[-.\s]?\d{3}[-.\s]?\d{4}', text):
\* the pattern matches somewhere exactly if \d{3}\)?[-.\s]?\d{3}[-.\s]?\d{4}
\* does, the country code and the opening parenthesis being optional
PhoneFound(t) ==
  \E i \in 1..Len(t) :
    /\ IsDigit(t[i])
    /\ DigitsAt(t, i, 3)
    /\ \E p1 \in AfterOptional(t, i + 3, {")"}) :
       \E p2 \in AfterOptional(t, p1, PhoneSeparators) :
         /\ DigitsAt(t, p2, 3)
         /\ \E p3 \in AfterOptional(t, p2 + 3, PhoneSeparators) :
              DigitsAt(t, p3, 4)

\* re.search(r'linkedin\.com/in/', text.lower())
LinkedInFound(t) == Contains(Lower(t), Chars("linkedin.com/in/"))

\* re.search(r',\s*[A-Z]{2}\b', text)
LocationFound(t) ==
  \E comma \in {i \in 1..Len(t) : t[i] = ","} :
    \E p \in (comma + 1)..(Len(t) - 1) :
      /\ AllIn(t, comma + 1, p - 1, SpaceSet)
      /\ t[p] \in UpperSet
      /\ t[p + 1] \in UpperSet
      /\ WordBoundary(t, p + 2)

\* what _calculate_contact_score returns once the four searches are made
ContactRecord(email, phone, linkedin, location) ==
  LET score == (IF email THEN 40 ELSE 0) + (IF phone THEN 30 ELSE 0)
               + (IF linkedin THEN 20 ELSE 0) + (IF location THEN 10 ELSE 0)
      missing_contact == (IF email THEN <<>> ELSE <<"email">>)
                         \o (IF phone THEN <<>> ELSE <<"phone">>)
  IN [score |-> FracOfInt(score),
      found_contact |-> (IF email THEN <<"email">> ELSE <<>>)
                        \o (IF phone THEN <<"phone">> ELSE <<>>)
                        \o (IF linkedin THEN <<"linkedin">> ELSE <<>>)
                        \o (IF location THEN <<"location">> ELSE <<>>),
      missing_contact |-> missing_contact,
      issues |->
        (IF Len(missing_contact) > 0
           THEN <<"Missing: " \o JoinNames(missing_contact)>> ELSE <<>>)
        \o (IF score >= 70 THEN <<"Complete contact information">> ELSE <<>>)]

\* a contact score that looks for the LinkedIn address in the text as written
ContactScore_CaseSensitive(t) ==
  ContactRecord(EmailFound(t), PhoneFound(t),
                Contains(t, Chars("linkedin.com/in/")), LocationFound(t))
\* ATSScorer._calculate_contact_score
ContactScore(t) ==
  ContactRecord(EmailFound(t), PhoneFound(t), LinkedInFound(t),
                LocationFound(t))

\* a grade with the boundaries left out of the upper band
GetGrade_Strict(score) ==
  IF FracLt(FracOfInt(90), score) THEN "A+"
  ELSE IF FracLt(FracOfInt(80), score) THEN "A"
  ELSE IF FracLt(FracOfInt(70), score) THEN "B"
  ELSE IF FracLt(FracOfInt(60), score) THEN "C"
  ELSE "D"
\* ATSScorer._get_grade
GetGrade(score) ==
  IF FracLe(FracOfInt(90), score) THEN "A+"
  ELSE IF FracLe(FracOfInt(80), score) THEN "A"
  ELSE IF FracLe(FracOfInt(70), score) THEN "B"
  ELSE IF FracLe(FracOfInt(60), score) THEN "C"
  ELSE "D"

\* the categories in the order calculate_score fills the dict scores
Categories == <<"format", "sections", "keywords", "content", "contact">>
\* weights that count every category the same
Weights_Equal ==
  [format |-> Frac(20, 100), sections |-> Frac(20, 100),
   keywords |-> Frac(20, 100), content |-> Frac(20, 100),
   contact |-> Frac(20, 100)]
\* the dict weights of calculate_score
Weights ==
  [format |-> Frac(30, 100), sections |-> Frac(25, 100),
   keywords |-> Frac(20, 100), content |-> Frac(15, 100),
   contact |-> Frac(10, 100)]

\* feedback that praises a category only above 80
FeedbackLine_Above(category, data) ==
  IF FracLt(data.score, FracOfInt(60))
    THEN <<[mark |-> "warning", category |-> StrUpper(category),
            message |-> IF Len(data.issues) > 0 THEN data.issues[1]
                        ELSE "Needs improvement"]>>
  ELSE IF FracLt(FracOfInt(80), data.score)
    THEN <<[mark |-> "success", category |-> StrUpper(category),
            message |-> "Excellent"]>>
  ELSE <<>>
\* ATSScorer._generate_feedback: one line per category under 60 or from 80 on
FeedbackLine(category, data) ==
  IF FracLt(data.score, FracOfInt(60))
    THEN <<[mark |-> "warning", category |-> StrUpper(category),
            message |-> IF Len(data.issues) > 0 THEN data.issues[1]
                        ELSE "Needs improvement"]>>
  ELSE IF FracLe(FracOfInt(80), data.score)
    THEN <<[mark |-> "success", category |-> StrUpper(category),
            message |-> "Excellent"]>>
  ELSE <<>>
RECURSIVE FeedbackFrom(_, _)
FeedbackFrom(scores, k) ==
  IF k > Len(Categories) THEN <<>>
  ELSE FeedbackLine(Categories[k], scores[Categories[k]])
       \o FeedbackFrom(scores, k + 1)
GenerateFeedback(scores) ==
  LET feedback == FeedbackFrom(scores, 1)
  IN IF Len(feedback) > 0 THEN feedback
     ELSE <<[mark |-> "none", category |-> "",
             message |-> "Overall good ATS compatibility"]>>

\* sum(scores[category]['score'] * weights[category] for category in weights)
RECURSIVE WeightedSum(_, _)
WeightedSum(scores, k) ==
  IF k > Len(Categories) THEN FracOfInt(0)
  ELSE FracAdd(FracMul(scores[Categories[k]].score, Weights[Categories[k]]),
               WeightedSum(scores, k + 1))

\* round(x, 1) of a score x >= 0, in tenths: the nearest tenth, the even one
\* of two equally near
RoundTenths(x) ==
  LET q == (10 * x.num) \div x.den
      twice == 2 * (10 * x.num - q * x.den)
  IN Frac(IF twice < x.den THEN q
          ELSE IF twice > x.den THEN q + 1
          ELSE IF q % 2 = 0 THEN q ELSE q + 1,
          10)

\* the exceptions the divisions of the five scores raise on a resume and a
\* job description: each divides by a length that must not be 0
ScoreErrors(resume_text, job_description) ==
  IF \/ Max2(Len(SplitOn(resume_text, "\n")), 1) = 0
     \/ Len(ESSENTIAL_SECTIONS) = 0
     \/ Len(COMMON_ATS_KEYWORDS) = 0
     \/ Len(job_description) > 0 /\ JdDivisor(JdWords(job_description)) = 0
    THEN {"ZeroDivisionError"} ELSE {}

\* ATSScorer.calculate_score: the result, or the exception that comes out
calculate_score(resume_text, job_description) ==
  LET scores == [format |-> FormatScore(resume_text),
                 sections |-> SectionScore(resume_text),
                 keywords |-> KeywordScore(resume_text, job_description),
                 content |-> ContentScore(resume_text),
                 contact |-> ContactScore(resume_text)]
      overall_score == WeightedSum(scores, 1)
  IN IF ScoreErrors(resume_text, job_description) # {}
       THEN [raised |-> ScoreErrors(resume_text, job_description)]
       ELSE [overall_score |-> RoundTenths(overall_score),
             category_scores |-> scores,
             feedback |-> GenerateFeedback(scores),
             grade |-> GetGrade(overall_score)]

(***************************************************************************)
(* JobMatcher (src/src/job_matcher.py)                                     *)
(***************************************************************************)
\* seq[::-1]
Reverse(seq) == [i \in 1..Len(seq) |-> seq[Len(seq) + 1 - i]]
\* seq[:k], k of either sign
SliceTo(seq, k) ==
  IF k >= 0 THEN SubSeq(seq, 1, Min2(k, Len(seq)))
  ELSE SubSeq(seq, 1, Max2(Len(seq) + k, 0))

\* the orders of 1..n
IndexOrders(n) ==
  {p \in [1..n -> 1..n] : \A i, j \in 1..n : i # j => p[i] # p[j]}
\* np.argsort(similarities): the indices in an order that sorts the values
\* ascending.  The default kind, quicksort, is not stable: which of two
\* equal values comes first depends on the numpy build.
ArgsortResults(similarities) ==
  {p \in IndexOrders(Len(similarities)) :
     \A i, j \in 1..Len(similarities) :
       i < j => similarities[p[i]] <= similarities[p[j]]}

\* (mutant) the top k of the ascending order: the reversal [::-1] left out
TopIndices_NoReverse(sorted, k) == SliceTo(sorted, k)
\* np.argsort(similarities)[::-1][:top_k], argsort having returned `sorted`
TopIndices(sorted, k) == SliceTo(Reverse(sorted), k)

\* JobMatcher.match_jobs.  similarities[i] is the cosine similarity the
\* embedding service gives resume and job i, in hundredths; a job is named
\* by its index in job_descriptions.
match_jobs(similarities, k, sorted) ==
  IF Len(similarities) = 0 THEN <<>>
  ELSE LET top_indices == TopIndices(sorted, k)
       IN [r \in 1..Len(top_indices) |->
             [job |-> top_indices[r],
              similarity_score |-> similarities[top_indices[r]],
              match_percentage |-> similarities[top_indices[r]],
              rank |-> r]]

\* the sequences that list the elements of a finite set once each
Orderings(S) ==
  {q \in [1..Cardinality(S) -> S] :
     \A i, j \in 1..Cardinality(S) : i # j => q[i] # q[j]}

\* the similar_skills loop of analyze_skill_match: for each missing skill in
\* the order of the list missing_skills, each resume skill that is not an
\* exact match and whose embedding is closer than 0.7 to it
RECURSIVE SimilarSkills(_, _, _, _)
SimilarSkills(missing_list, resume_skills_lower, matching, close) ==
  IF Len(missing_list) = 0 THEN <<>>
  ELSE LET req_skill == missing_list[1]
           Hit(resume_skill) == /\ resume_skill \notin matching
                                /\ {req_skill, resume_skill} \in close
           hits == SelectSeq(resume_skills_lower, Hit)
       IN [h \in 1..Len(hits) |-> [required |-> req_skill, resume_has |-> hits[h]]]
          \o SimilarSkills(Tail(missing_list), resume_skills_lower, matching, close)

\* (mutant) the percentage taken of the distinct required skills
MatchPercentage_Distinct(matching, required) ==
  IF Len(required) > 0
    THEN FracMul(Frac(Cardinality(matching), Cardinality(Range(required))),
                 FracOfInt(100))
    ELSE FracOfInt(0)
\* match_percentage of analyze_skill_match
MatchPercentage(matching, required) ==
  IF Len(required) > 0
    THEN FracMul(Frac(Cardinality(matching), Len(required)), FracOfInt(100))
    ELSE FracOfInt(0)

\* JobMatcher.analyze_skill_match.  list(set(...)) gives the two sets in an
\* order of Python's choosing: matching_skills is kept as a set, and
\* missing_list is the order missing_skills came out in.  close holds the
\* pairs of skills whose embeddings have cosine similarity above 0.7.
analyze_skill_match(resume, required, missing_list, close) ==
  LET resume_skills_lower == [i \in 1..Len(resume) |-> StrLower(resume[i])]
      required_skills_lower == [i \in 1..Len(required) |-> StrLower(required[i])]
      matching == Range(resume_skills_lower) \cap Range(required_skills_lower)
      missing == Range(required_skills_lower) \ Range(resume_skills_lower)
  IN [matching_skills |-> matching,
      missing_skills |-> missing,
      similar_skills |->
        IF missing # {} /\ Len(resume) > 0
          THEN SimilarSkills(missing_list, resume_skills_lower, matching, close)
          ELSE <<>>,
      match_percentage |-> MatchPercentage(matching, required),
      total_required |-> Len(required),
      total_matched |-> Cardinality(matching)]
\* the orders list(set(required) - set(resume)) can come out in
MissingOrders(resume, required) ==
  Orderings({StrLower(required[i]) : i \in 1..Len(required)}
            \ {StrLower(resume[i]) : i \in 1..Len(resume)})

(***************************************************************************)
(* ResumeParser.extract_metadata, parse_pdf, parse_docx and parse_file     *)
(***************************************************************************)
\* the least element of a non-empty set of integers, and the greatest
Least(S) == CHOOSE x \in S : \A y \in S : x <= y
Greatest(S) == CHOOSE x \in S : \A y \in S : x >= y
\* the last position of the run of characters of class that starts at p
\* (p - 1 when the character at p is not of the class)
RunEnd(t, p, class) ==
  Greatest({p - 1} \cup {k \in p..Len(t) : AllIn(t, p, k, class)})

\* the end of the match of the email pattern that starts at s, 0 for none:
\* the local part runs up to the '@', the domain is taken as long as a dot and
\* a top-level part can follow it, the top-level part as long as \b allows
EmailEnd(t, s) ==
  LET at == RunEnd(t, s, EmailLocalSet) + 1
      r == RunEnd(t, at + 1, EmailDomainSet)
      EndsAfter(dot) ==
        {e \in (dot + 2)..Len(t) :
           AllIn(t, dot + 1, e, EmailTldSet) /\ WordBoundary(t, e + 1)}
      dots == {d \in (at + 2)..r : t[d] = "." /\ EndsAfter(d) # {}}
  IN IF /\ at > s
        /\ at <= Len(t)
        /\ t[at] = "@"
        /\ WordBoundary(t, s)
        /\ dots # {}
       THEN Greatest(EndsAfter(Greatest(dots)))
       ELSE 0
\* re.findall(email_pattern, text)[:1]
FirstEmail(t) ==
  LET starts == {s \in 1..Len(t) : t[s] \in EmailLocalSet /\ EmailEnd(t, s) > 0}
  IN IF starts = {} THEN <<>>
     ELSE <<SubSeq(t, Least(starts), EmailEnd(t, Least(starts)))>>

\* the position after an optional character of class at p
SkipOptional(t, p, class) == IF p <= Len(t) /\ t[p] \in class THEN p + 1 ELSE p
\* the end of the match of \(?\d{3}\)?[-.\s]?\d{3}[-.\s]?\d{4} at p, 0 for none
PhoneRestEnd(t, p) ==
  LET p0 == SkipOptional(t, p, {"("})
      p1 == SkipOptional(t, p0 + 3, {")"})
      p2 == SkipOptional(t, p1, PhoneSeparators)
      p3 == SkipOptional(t, p2 + 3, PhoneSeparators)
  IN IF DigitsAt(t, p0, 3) /\ DigitsAt(t, p2, 3) /\ DigitsAt(t, p3, 4)
       THEN p3 + 3 ELSE 0
\* the ways (\+\d{1,3}[-.\s]?) can match at s, in the order the search tries
\* them: three digits before two before one, with a separator before without
PhonePrefixEnds(t, s) ==
  LET WithDigits(n) ==
        IF DigitsAt(t, s + 1, n)
          THEN (IF s + n + 1 <= Len(t) /\ t[s + n + 1] \in PhoneSeparators
                  THEN <<s + n + 1>> ELSE <<>>) \o <<s + n>>
          ELSE <<>>
  IN IF s <= Len(t) /\ t[s] = "+"
       THEN WithDigits(3) \o WithDigits(2) \o WithDigits(1)
       ELSE <<>>
\* the match of the phone pattern that starts at s: where it ends (0: none)
\* and its group 1, the country code, which is '' when the match has none
PhoneMatch(t, s) ==
  LET prefixes == SelectSeq(PhonePrefixEnds(t, s),
                            LAMBDA e : PhoneRestEnd(t, e + 1) > 0)
  IN IF Len(prefixes) > 0
       THEN [end |-> PhoneRestEnd(t, prefixes[1] + 1),
             group |-> SubSeq(t, s, prefixes[1])]
       ELSE [end |-> PhoneRestEnd(t, s), group |-> <<>>]
\* re.findall(phone_pattern, text)[:2]: findall gives group 1 of each match
\* of a pattern with one group, the matches taken from left to right without
\* overlap
FirstPhones(t) ==
  LET Starts(from) ==
        {s \in from..Len(t) :
           t[s] \in DigitSet \cup {"+", "("} /\ PhoneMatch(t, s).end > 0}
      first == PhoneMatch(t, Least(Starts(1)))
      second == PhoneMatch(t, Least(Starts(first.end + 1)))
  IN IF Starts(1) = {} THEN <<>>
     ELSE IF Starts(first.end + 1) = {} THEN <<first.group>>
     ELSE <<first.group, second.group>>

\* re.findall(literal + r'[\w-]+', text.lower()): the first match, <<>> for
\* None (a match is never empty)
FirstProfile(t, literal) ==
  LET text_lower == Lower(t)
      class == WordSet \cup {"-"}
      starts == {s \in 1..Len(text_lower) :
                   /\ text_lower[s] = literal[1]
                   /\ MatchAt(text_lower, literal, s)
                   /\ s + Len(literal) <= Len(text_lower)
                   /\ text_lower[s + Len(literal)] \in class}
  IN IF starts = {} THEN <<>>
     ELSE SubSeq(text_lower, Least(starts),
                 RunEnd(text_lower, Least(starts) + Len(literal), class))

\* ResumeParser.extract_metadata
extract_metadata(t) ==
  [emails |-> FirstEmail(t),
   phones |-> FirstPhones(t),
   linkedin |-> FirstProfile(t, Chars("linkedin.com/in/")),
   github |-> FirstProfile(t, Chars("github.com/"))]

\* what a reader of a file gives: a text, or the exception it raised
Read(t) == [raised |-> FALSE, text |-> t]
Raised(type, cause) == [raised |-> TRUE, type |-> type, message |-> cause]

\* ResumeParser.__init__
ResumeParserInit == [supported_formats |-> <<".pdf", ".docx", ".txt">>]

MinPdfTextLen == 50
\* ResumeParser.parse_pdf on a file f, f.pdfplumber and f.pypdf2 being what
\* _parse_with_pdfplumber and _parse_with_pypdf2 give on it; tried lists the
\* extractions made
parse_pdf(f) ==
  IF f.pdfplumber.raised
    THEN [raised |-> TRUE, type |-> "ValueError",
          message |-> "Failed to parse PDF: " \o f.pdfplumber.message,
          tried |-> <<"_parse_with_pdfplumber">>]
  ELSE IF /\ Len(f.pdfplumber.text) > 0
          /\ Len(Strip(f.pdfplumber.text)) > MinPdfTextLen
    THEN [raised |-> FALSE, text |-> f.pdfplumber.text,
          tried |-> <<"_parse_with_pdfplumber">>]
  ELSE IF f.pypdf2.raised
    THEN [raised |-> TRUE, type |-> "ValueError",
          message |-> "Failed to parse PDF: " \o f.pypdf2.message,
          tried |-> <<"_parse_with_pdfplumber", "_parse_with_pypdf2">>]
  ELSE [raised |-> FALSE, text |-> f.pypdf2.text,
        tried |-> <<"_parse_with_pdfplumber", "_parse_with_pypdf2">>]

\* ResumeParser.parse_docx on a file f, f.docx being what Document(path)
\* gives: an exception, or the paragraphs and the table cells of the document
parse_docx(f) ==
  IF f.docx.raised
    THEN Raised("ValueError", "Failed to parse DOCX: " \o f.docx.message)
    ELSE LET NotBlank(piece) == Len(Strip(piece)) > 0
         IN Read(Join(SelectSeq(f.docx.paragraphs, NotBlank)
                      \o SelectSeq(f.docx.cells, NotBlank), <<"\n">>))

\* parse_file from the extraction on (lines 122 to 147), for a file that
\* exists and an extension that is supported. The result tells whether
\* parse_file returned or raised, what it raised, and which steps it made.
ParseSupported(f, extension) ==
  LET extracted == IF extension = ".pdf" THEN parse_pdf(f)
                   ELSE IF extension = ".docx" THEN parse_docx(f)
                   ELSE IF extension = ".txt" THEN f.read
                   ELSE Raised("ValueError", "Unsupported format: " \o extension)
      reader == IF extension = ".pdf" THEN <<"parse_pdf">> \o extracted.tried
                ELSE IF extension = ".docx" THEN <<"parse_docx">>
                ELSE IF extension = ".txt" THEN <<"read">>
                ELSE <<>>
      cleaned == clean_text(extracted.text)
  IN IF extracted.raised
       THEN [outcome |-> "raised", type |-> extracted.type,
             message |-> extracted.message, steps |-> reader]
       ELSE [outcome |-> "returned",
             steps |-> reader \o <<"clean_text", "extract_metadata">>,
             raw_text |-> cleaned,
             cleaned_text |-> cleaned,
             file_name |-> f.name,
             file_type |-> extension,
             metadata |-> extract_metadata(cleaned),
             word_count |-> WordCount(cleaned),
             char_count |-> Len(cleaned)]

\* a parse_file that looks at the extension before it looks for the file
parse_file_FormatFirst(self, f) ==
  IF StrLower(f.suffix) \notin Range(self.supported_formats)
    THEN [outcome |-> "raised", type |-> "ValueError",
          message |-> "Unsupported file format: " \o StrLower(f.suffix),
          steps |-> <<>>]
  ELSE IF ~f.exists
    THEN [outcome |-> "raised", type |-> "FileNotFoundError",
          message |-> "File not found: " \o f.name, steps |-> <<>>]
  ELSE ParseSupported(f, StrLower(f.suffix))
\* ResumeParser.parse_file on a file f: f.exists, f.name and f.suffix are those
\* of the path, f.read is what open(...).read() gives
parse_file(self, f) ==
  LET extension == StrLower(f.suffix)
  IN IF ~f.exists
       THEN [outcome |-> "raised", type |-> "FileNotFoundError",
             message |-> "File not found: " \o f.name, steps |-> <<>>]
     ELSE IF extension \notin Range(self.supported_formats)
       THEN [outcome |-> "raised", type |-> "ValueError",
             message |-> "Unsupported file format: " \o extension,
             steps |-> <<>>]
     ELSE ParseSupported(f, extension)

(***************************************************************************)
(* NLPProcessor._find_section and extract_experience                       *)
(***************************************************************************)
\* the keywords extract_experience looks for its section by
ExperienceKeywords == <<"experience", "employment", "work history">>
\* how far behind the start of a section the search for the next heading
\* begins: text[start + 50:]
SectionSkip == 50
\* the least number of characters between the line breaks of a heading
MinHeadingLen == 10

\* r'\b' + keyword + r'\b' matches at position i; the keywords begin and end
\* with a word character
KeywordAt(t, keyword, i) ==
  /\ t[i] = keyword[1]
  /\ MatchAt(t, keyword, i)
  /\ WordBoundary(t, i)
  /\ WordBoundary(t, i + Len(keyword))
\* the start of re.search(pattern, text_lower, re.DOTALL), 0 for no match:
\* after the keyword, .*? runs on until \Z at the latest, so the pattern
\* matches wherever the keyword does, the leftmost place first
KeywordStart(text_lower, keyword) ==
  LET starts == {i \in 1..(Len(text_lower) - Len(keyword) + 1) :
                   KeywordAt(text_lower, keyword, i)}
  IN IF starts = {} THEN 0 ELSE Least(starts)
\* r'\n[A-Z\s]{10,}\n' matches at position p
HeadingAt(t, p) ==
  /\ t[p] = "\n"
  /\ \E q \in (p + MinHeadingLen + 1)..Len(t) :
       t[q] = "\n" /\ AllIn(t, p + 1, q - 1, UpperSet \cup SpaceSet)
\* the part of text from the match at start to the next heading, which is
\* looked for from 50 characters behind start on, or to the end of the text
SectionFrom(t, start) ==
  LET headings == {p \in (start + SectionSkip)..Len(t) : HeadingAt(t, p)}
  IN SubSeq(t, start, IF headings = {} THEN Len(t) ELSE Least(headings) - 1)
\* NLPProcessor._find_section from the k-th keyword on: the section of the
\* first keyword in list order that the lower-case text holds, or None
RECURSIVE FindSectionFrom(_, _, _)
FindSectionFrom(t, keywords, k) ==
  IF k > Len(keywords) THEN [none |-> TRUE]
  ELSE IF KeywordStart(Lower(t), Chars(keywords[k])) > 0
    THEN [none |-> FALSE,
          text |-> SectionFrom(t, KeywordStart(Lower(t), Chars(keywords[k])))]
  ELSE FindSectionFrom(t, keywords, k + 1)
\* NLPProcessor._find_section
find_section(t, keywords) == FindSectionFrom(t, keywords, 1)

\* the month names of date_pattern, lower case
Months == {Chars(m) : m \in {"jan", "feb", "mar", "apr", "may", "jun",
                             "jul", "aug", "sep", "oct", "nov", "dec"}}
\* the position the match of date_pattern that starts at p ends at, 0 for
\* none: four digits, or at a word boundary a month name, letters, whitespace
\* and four digits (re.IGNORECASE)
DateEnd(line, p) ==
  LET letters == RunEnd(line, p + 3, UpperSet \cup LowerSet)
      spaces == RunEnd(line, letters + 1, SpaceSet)
  IN IF p + 3 <= Len(line) /\ AllIn(line, p, p + 3, DigitSet) THEN p + 3
     ELSE IF /\ p + 2 <= Len(line)
             /\ WordBoundary(line, p)
             /\ Lower(SubSeq(line, p, p + 2)) \in Months
             /\ spaces > letters
             /\ spaces + 4 <= Len(line)
             /\ AllIn(line, spaces + 1, spaces + 4, DigitSet)
       THEN spaces + 4
     ELSE 0
\* re.findall(date_pattern, line, re.IGNORECASE) from position p on, starts
\* being the positions a match can start at: the group is the whole pattern,
\* so findall returns each match, in text order, the next one looked for
\* behind the end of the last
RECURSIVE DatesFrom(_, _, _)
DatesFrom(line, starts, p) ==
  IF {s \in starts : s >= p} = {} THEN <<>>
  ELSE LET s == Least({x \in starts : x >= p})
       IN <<SubSeq(line, s, DateEnd(line, s))>>
          \o DatesFrom(line, starts, DateEnd(line, s) + 1)
FindallDates(line) ==
  DatesFrom(line, {p \in 1..Len(line) : DateEnd(line, p) > 0}, 1)

\* an open entry appended twice over
CloseEntry_Twice(experiences, current_entry) ==
  IF current_entry = <<>> THEN experiences
  ELSE experiences \o current_entry \o current_entry
\* the entries closed so far with the open one, if there is one, appended
CloseEntry(experiences, current_entry) ==
  IF current_entry = <<>> THEN experiences
  ELSE experiences \o current_entry
\* the loop of extract_experience over lines from the k-th on; current_entry
\* is <<>> for the empty dict and <<entry>> for an open entry
RECURSIVE ScanLines(_, _, _, _)
ScanLines(lines, k, experiences, current_entry) ==
  IF k > Len(lines) THEN CloseEntry(experiences, current_entry)
  ELSE LET line == Strip(lines[k])
           dates == FindallDates(line)
       IN IF Len(line) = 0
            THEN ScanLines(lines, k + 1,
                           CloseEntry(experiences, current_entry), <<>>)
          ELSE IF Len(dates) >= 1
            THEN ScanLines(lines, k + 1,
                           CloseEntry(experiences, current_entry),
                           <<[raw_text |-> line, dates |-> dates,
                              description |-> <<>>]>>)
          ELSE IF current_entry # <<>>
            THEN ScanLines(lines, k + 1, experiences,
                           <<[current_entry[1] EXCEPT
                                !.description = @ \o <<line>>]>>)
          ELSE ScanLines(lines, k + 1, experiences, current_entry)
\* NLPProcessor.extract_experience
extract_experience(t) ==
  LET exp_section == find_section(t, ExperienceKeywords)
  IN IF exp_section.none \/ Len(exp_section.text) = 0 THEN <<>>
     ELSE ScanLines(SplitOn(exp_section.text, "\n"), 1, <<>>, <<>>)

(***************************************************************************)
(* The analysis pipeline of api/main.py: the module-level components and   *)
(* the calls analyze_resume makes on them for one upload                   *)
(***************************************************************************)
\* [skill for skills_list in skills.values() for skill in skills_list]
RECURSIVE FlattenSkills(_)
FlattenSkills(items) ==
  IF Len(items) = 0 THEN <<>>
  ELSE items[1].skills \o FlattenSkills(Tail(items))

\* the attributes of resume_parser, nlp_processor and job_matcher after
\* construction (ats_scorer has none)
ComponentsInit ==
  [loaded |-> TRUE,
   resume_parser |-> ResumeParserInit,
   nlp_processor |-> [all_skills |-> FlattenSkills(TECH_SKILLS)],
   job_matcher |-> [model_name |-> "all-MiniLM-L6-v2"]]

\* the local variables of one invocation of analyze_resume before its first
\* call; at is the call it makes next
NewCall(f, jd) ==
  [at |-> "parse_file", file |-> f, job_description |-> jd,
   parsed_data |-> [outcome |-> "none"], resume_text |-> <<>>,
   skills |-> <<>>, experiences |-> <<>>, experience_years |-> 0,
   ats_score |-> [grade |-> ""], skill_gap |-> [total_required |-> 0]]

\* a parser that keeps the document it parsed and answers with the one it
\* has kept
ParseFileStep_Kept(shared, call) ==
  LET parsed_data ==
        IF "last" \in DOMAIN shared.resume_parser
          THEN shared.resume_parser.last
          ELSE parse_file(shared.resume_parser, call.file)
  IN [shared |-> [shared EXCEPT !.resume_parser =
                    [supported_formats |-> @.supported_formats,
                     last |-> parsed_data]],
      call |-> IF parsed_data.outcome = "raised"
                 THEN [call EXCEPT !.at = "failed",
                                   !.parsed_data = parsed_data]
                 ELSE [call EXCEPT !.at = "extract_skills",
                                   !.parsed_data = parsed_data,
                                   !.resume_text = parsed_data.cleaned_text]]
\* parsed_data = resume_parser.parse_file(tmp_file_path) and resume_text =
\* parsed_data['cleaned_text']; an exception ends the invocation
ParseFileStep(shared, call) ==
  LET parsed_data == parse_file(shared.resume_parser, call.file)
  IN [shared |-> shared,
      call |-> IF parsed_data.outcome = "raised"
                 THEN [call EXCEPT !.at = "failed",
                                   !.parsed_data = parsed_data]
                 ELSE [call EXCEPT !.at = "extract_skills",
                                   !.parsed_data = parsed_data,
                                   !.resume_text = parsed_data.cleaned_text]]
\* skills = nlp_processor.extract_skills(resume_text)
ExtractSkillsStep(shared, call) ==
  [shared |-> shared,
   call |-> [call EXCEPT !.at = "extract_experience",
                         !.skills = extract_skills(call.resume_text)]]
\* experiences = nlp_processor.extract_experience(resume_text)
ExtractExperienceStep(shared, call) ==
  [shared |-> shared,
   call |-> [call EXCEPT !.at = "calculate_experience_years",
                         !.experiences = extract_experience(call.resume_text)]]
\* experience_years = nlp_processor.calculate_experience_years(resume_text)
ExperienceYearsStep(shared, call) ==
  [shared |-> shared,
   call |-> [call EXCEPT !.at = "calculate_score",
                         !.experience_years =
                           calculate_experience_years(call.resume_text)]]
\* ats_score = ats_scorer.calculate_score(resume_text, job_description); the
\* skill gap follows `if job_description:`
CalculateScoreStep(shared, call) ==
  [shared |-> shared,
   call |-> [call EXCEPT !.at = IF Len(call.job_description) > 0
                                  THEN "analyze_skill_match" ELSE "done",
                         !.ats_score = calculate_score(call.resume_text,
                                                       call.job_description)]]
\* the two lists analyze_resume hands to analyze_skill_match
AllResumeSkills(call) == FlattenSkills(call.skills)
AllJdSkills(call) == FlattenSkills(extract_skills(call.job_description))
\* skill_gap = job_matcher.analyze_skill_match(all_resume_skills,
\* all_jd_skills), missing_list and close as in analyze_skill_match
SkillMatchStep(shared, call, missing_list, close) ==
  [shared |-> shared,
   call |-> [call EXCEPT !.at = "done",
                         !.skill_gap =
                           analyze_skill_match(AllResumeSkills(call),
                                               AllJdSkills(call),
                                               missing_list, close)]]

(***************************************************************************)
(* JobMatcher.generate_recommendations                                     *)
(***************************************************************************)
\* the similarity, in hundredths, under which the resume is to be tailored
LowSimilarity == 30
\* the word counts under and over which the length is remarked on
BriefWordCount == 200
LongWordCount == 800
\* action_verbs of generate_recommendations
RecommendationVerbs ==
  <<"led", "managed", "developed", "created", "implemented",
    "designed", "achieved", "improved", "increased", "decreased">>
TailorMessage ==
  "Consider tailoring your resume more closely to this job description"
BriefMessage ==
  "Your resume seems brief. Consider adding more details about your experience and achievements"
LongMessage ==
  "Your resume is quite long. Consider condensing it to focus on most relevant experience"
NumbersMessage ==
  "Add quantifiable achievements (e.g., 'Increased sales by 25%', 'Managed team of 10')"
VerbsMessage ==
  "Use strong action verbs to describe your accomplishments (e.g., 'Led', 'Developed', 'Achieved')"
WellStructuredMessage ==
  "Your resume looks well-structured! Continue to keep it updated with latest achievements."

\* the recommendations appended one check after the other
Recommendations(resume_text, sim) ==
  LET word_count == WordCount(resume_text)
      has_numbers == \E i \in 1..Len(resume_text) : IsDigit(resume_text[i])
      text_lower == Lower(resume_text)
      has_action_verbs ==
        \E k \in 1..Len(RecommendationVerbs) :
          Contains(text_lower, Chars(RecommendationVerbs[k]))
  IN (IF sim < LowSimilarity THEN <<TailorMessage>> ELSE <<>>)
     \o (IF word_count < BriefWordCount THEN <<BriefMessage>>
         ELSE IF word_count > LongWordCount THEN <<LongMessage>>
         ELSE <<>>)
     \o (IF ~has_numbers THEN <<NumbersMessage>> ELSE <<>>)
     \o (IF ~has_action_verbs THEN <<VerbsMessage>> ELSE <<>>)
\* recommendations returned as they are, an empty list too
generate_recommendations_AsIs(resume_text, sim) ==
  Recommendations(resume_text, sim)
\* JobMatcher.generate_recommendations, sim being what calculate_similarity
\* returns for the resume and the job description, in hundredths
generate_recommendations(resume_text, sim) ==
  IF Recommendations(resume_text, sim) # <<>>
    THEN Recommendations(resume_text, sim)
    ELSE <<WellStructuredMessage>>

(***************************************************************************)
(* The upload handlers of api/main.py: analyze_resume and match_jobs       *)
(***************************************************************************)
\* max_size_mb of validate_file_upload
MaxUploadMb == 10
\* utils.validate_file_upload on the file f at a path
validate_file_upload(f) ==
  IF ~f.exists
    THEN [outcome |-> "raised", type |-> "FileNotFoundError"]
  ELSE IF f.size_mb > MaxUploadMb
    THEN [outcome |-> "raised", type |-> "ValueError"]
  ELSE IF StrLower(f.suffix) \notin {".pdf", ".docx", ".txt"}
    THEN [outcome |-> "raised", type |-> "ValueError"]
  ELSE [outcome |-> "returned"]

\* the request once the handler has written the upload to its temp file:
\* tempfile.NamedTemporaryFile(delete=False, suffix=...) gives each request a
\* path of its own
SavedUpload(request, path) ==
  [request EXCEPT !.at = "saved", !.tmp_file_path = path]
\* the try block of analyze_resume behind the temp file up to the calls
\* that can raise: the first exception, or none
AnalyzeRaises(request) ==
  IF validate_file_upload(request.upload).outcome = "raised"
    THEN <<"validate_file_upload">>
  ELSE IF parse_file(ResumeParserInit, request.upload).outcome = "raised"
    THEN <<"parse_file">>
  ELSE IF Len(request.job_description) > 0 /\ request.encoder_raises
    THEN <<"calculate_similarity">>
  ELSE <<>>
\* the try block of match_jobs behind the temp file
MatchJobsRaises(request) ==
  IF parse_file(ResumeParserInit, request.upload).outcome = "raised"
    THEN <<"parse_file">>
  ELSE IF request.encoder_raises THEN <<"match_jobs">>
  ELSE <<>>
\* the rest of a handler: os.unlink(tmp_file_path) and the response when
\* nothing raised, `except Exception` and HTTP 500 when something did
Answered(request, raises, files) ==
  IF raises = <<>>
    THEN [request |-> [request EXCEPT !.at = "answered", !.status = 200],
          files |-> files \ {request.tmp_file_path}]
    ELSE [request |-> [request EXCEPT !.at = "answered", !.status = 500,
                                      !.raised_in = raises[1]],
          files |-> files]

(***************************************************************************)
(* ModelLoader (src/models/model_loader.py)                                *)
(***************************************************************************)
\* The class is a record: _instance is the one instance, _models the
\* dictionary as the sequence of its items in insertion order, objects
\* the number of objects made so far, which names the next one.  An object
\* is a record of the constructor that made it and its identity.
None == [kind |-> "NoneType", id |-> 0]
ModelLoaderClass == [_instance |-> None, _models |-> <<>>, objects |-> 0]
\* model_name in self._models, self._models[model_name], list(self._models.keys())
InModels(cls, model_name) ==
  \E k \in DOMAIN cls._models : cls._models[k].name = model_name
CachedModel(cls, model_name) ==
  cls._models[CHOOSE k \in DOMAIN cls._models :
                cls._models[k].name = model_name].model
ModelKeys(cls) == [k \in DOMAIN cls._models |-> cls._models[k].name]

\* ModelLoader(): __new__ makes the instance when there is none and returns
\* it; __init__ sets cache_dir and leaves _models alone
ModelLoaderNew(cls) ==
  LET made == IF cls._instance = None
                THEN [cls EXCEPT !._instance = [kind |-> "ModelLoader",
                                                id |-> cls.objects + 1],
                                 !.objects = cls.objects + 1]
                ELSE cls
  IN [cls |-> made, outcome |-> "returned", value |-> made._instance,
      constructed |-> FALSE]

\* the two loads from the constructor call on: kind names the constructor,
\* built tells whether it returned, on_failure what the except clause does
LoadNew(cls, model_name, kind, built, on_failure) ==
  IF built
    THEN LET model == [kind |-> kind, id |-> cls.objects + 1]
         IN [cls |-> [cls EXCEPT !._models =
                                   Append(@, [name |-> model_name,
                                              model |-> model]),
                                 !.objects = cls.objects + 1],
             outcome |-> "returned", value |-> model, constructed |-> TRUE]
    ELSE [cls |-> cls, outcome |-> on_failure, value |-> None,
          constructed |-> FALSE]
\* a load that does not look into the cache
load_sentence_transformer_Fresh(cls, model_name, built) ==
  LoadNew([cls EXCEPT !._models =
             SelectSeq(@, LAMBDA item : item.name # model_name)],
          model_name, "SentenceTransformer", built, "raised")
\* ModelLoader.load_sentence_transformer; built tells whether
\* SentenceTransformer(model_name, ...) returns or raises
load_sentence_transformer(cls, model_name, built) ==
  IF InModels(cls, model_name)
    THEN [cls |-> cls, outcome |-> "returned",
          value |-> CachedModel(cls, model_name), constructed |-> FALSE]
    ELSE LoadNew(cls, model_name, "SentenceTransformer", built, "raised")
\* ModelLoader.load_spacy_model; built tells whether spacy.load(model_name)
\* returns or raises, and a failure returns None
load_spacy_model(cls, model_name, built) ==
  IF InModels(cls, model_name)
    THEN [cls |-> cls, outcome |-> "returned",
          value |-> CachedModel(cls, model_name), constructed |-> FALSE]
    ELSE LoadNew(cls, model_name, "spacy", built, "returned")
\* ModelLoader.clear_cache
clear_cache(cls) ==
  [cls |-> [cls EXCEPT !._models = <<>>], outcome |-> "returned",
   value |-> None, constructed |-> FALSE]
\* ModelLoader.get_loaded_models
get_loaded_models(cls) ==
  [cls |-> cls, outcome |-> "returned", value |-> ModelKeys(cls),
   constructed |-> FALSE]

(***************************************************************************)
(* The state: the text an operation works on, the values it returns.       *)
(***************************************************************************)
VARIABLES
  pc,        \* "ready" before the operation under study has run, "done" after
  text,      \* the text handed to the operation (clean_text: its result too)
  passes,    \* how many times clean_text has been applied to text
  skills,    \* what extract_skills returned
  years,     \* what calculate_experience_years returned
  similarities,     \* match_jobs: the similarity of each job to the resume
  top_k,            \* match_jobs: its argument top_k
  matches,          \* what match_jobs returned
  resume_skills,    \* analyze_skill_match: its argument resume_skills
  required_skills,  \* analyze_skill_match: its argument required_skills
  close_pairs,      \* the pairs of skills the embedding service puts above 0.7
  skill_gap,        \* what analyze_skill_match returned
  job_description,  \* calculate_score: its argument job_description
  ats,              \* what calculate_score returned
  contact,          \* what _calculate_contact_score returned
  score,            \* _get_grade: its argument score
  grade,            \* what _get_grade returned
  file,             \* parse_file: the file at the path it is given
  parsed,           \* what parse_file returned or raised, and the calls it made
  components,       \* the attributes of the module-level component instances
  calls,            \* the invocations of the pipeline in progress: their locals
  similarity,       \* generate_recommendations: what calculate_similarity gives
  recommendations,  \* what generate_recommendations returned
  section,          \* what _find_section returned
  experiences,      \* what extract_experience returned
  temp_files,       \* the upload temp files on disk
  requests,         \* the API requests: where each handler is, what it got
  loader,           \* the ModelLoader class: _instance and its _models
  loads             \* the calls made on ModelLoader handles, with their results

textVars == <<text, passes>>
nlpVars == <<skills, years>>
matchVars == <<similarities, top_k, matches>>
gapVars == <<resume_skills, required_skills, close_pairs, skill_gap>>
atsVars == <<job_description, ats, contact, score, grade>>
parseVars == <<file, parsed>>
pipelineVars == <<components, calls>>
recVars == <<similarity, recommendations>>
expVars == <<section, experiences>>
apiVars == <<temp_files, requests>>
loaderVars == <<loader, loads>>
vars == <<pc, textVars, nlpVars, matchVars, gapVars, atsVars, parseVars,
          pipelineVars, recVars, expVars, apiVars, loaderVars>>

\* all sequences over S of length at most n
SeqsUpTo(S, n) == UNION {[1..k -> S] : k \in 0..n}

NlpIdle == skills = <<>> /\ years = 0
ParseIdle == file = [exists |-> FALSE] /\ parsed = [outcome |-> "none"]
PipelineIdle == components = [loaded |-> FALSE] /\ calls = <<>>
RecIdle == similarity = 0 /\ recommendations = <<>>
ExpIdle == section = [none |-> TRUE] /\ experiences = <<>>
ApiIdle == temp_files = {} /\ requests = <<>>
LoaderIdle == loader = [created |-> FALSE] /\ loads = <<>>
MatchIdle == similarities = <<>> /\ top_k = 0 /\ matches = <<>>
GapIdle ==
  /\ resume_skills = <<>>
  /\ required_skills = <<>>
  /\ close_pairs = {}
  /\ skill_gap = [total_required |-> 0]
AtsIdle ==
  /\ job_description = <<>>
  /\ ats = [grade |-> ""]
  /\ contact = [issues |-> <<>>]
  /\ score = FracOfInt(0)
  /\ grade = ""

(***************************************************************************)
(* clean_text, applied to a raw text and again to its own result           *)
(***************************************************************************)
MaxTextLen == 5
MaxPasses == 2
CleanAlphabet == {"a", " ", "\t", "\n", "\r", "#"}

InitClean ==
  /\ RecIdle
  /\ ExpIdle
  /\ ApiIdle
  /\ LoaderIdle
  /\ pc = "ready"
  /\ text \in SeqsUpTo(CleanAlphabet, MaxTextLen)
  /\ passes = 0
  /\ NlpIdle
  /\ ParseIdle
  /\ PipelineIdle
  /\ MatchIdle
  /\ GapIdle
  /\ AtsIdle

CleanText ==
  /\ passes < MaxPasses
  /\ text' = clean_text(text)
  /\ passes' = passes + 1
  /\ pc' = "done"
  /\ UNCHANGED <<recVars, expVars, apiVars, loaderVars>>
  /\ UNCHANGED <<parseVars, pipelineVars>>
  /\ UNCHANGED <<nlpVars, matchVars, gapVars, atsVars>>

NextClean == CleanText
SpecClean == InitClean /\ [][NextClean]_vars

(***************************************************************************)
(* calculate_experience_years on texts made of year-like words             *)
(***************************************************************************)
MaxYearWords == 3
YearWords == {"1998", "2001", "2020", "1900", "2099", "1899", "2100", "in"}
YearSeparators == {" ", "-"}

InitYears ==
  /\ RecIdle
  /\ ExpIdle
  /\ ApiIdle
  /\ LoaderIdle
  /\ pc = "ready"
  /\ \E ws \in SeqsUpTo(YearWords, MaxYearWords), sep \in YearSeparators :
       text = Join([k \in 1..Len(ws) |-> Chars(ws[k])], <<sep>>)
  /\ passes = 0
  /\ NlpIdle
  /\ ParseIdle
  /\ PipelineIdle
  /\ MatchIdle
  /\ GapIdle
  /\ AtsIdle

CalculateExperienceYears ==
  /\ pc = "ready"
  /\ years' = calculate_experience_years(text)
  /\ pc' = "done"
  /\ UNCHANGED <<recVars, expVars, apiVars, loaderVars>>
  /\ UNCHANGED <<parseVars, pipelineVars>>
  /\ UNCHANGED <<textVars, skills, matchVars, gapVars, atsVars>>

NextYears == CalculateExperienceYears
SpecYears == InitYears /\ [][NextYears]_vars

(***************************************************************************)
(* extract_skills on one catalog skill in some letter case, and on texts   *)
(* that mention several skills in some order                               *)
(***************************************************************************)
MaxCasePos == 3
MaxSkillWords == 3
AllSkills == UNION {Range(TECH_SKILLS[k].skills) : k \in DOMAIN TECH_SKILLS}
MixWords == {"SQL", "python", "React", "aws", "sql server", "r", "c++",
             "excel"}
\* t with the characters at the positions of `upper` in upper case
ApplyCase(t, upper) ==
  AsSeq([i \in 1..Len(t) |-> IF i \in upper THEN UpperChar(t[i]) ELSE t[i]])
SingleSkillTexts ==
  {pad \o ApplyCase(Chars(s), upper) \o pad :
     s \in AllSkills,
     upper \in (SUBSET (1..MaxCasePos)) \cup {1..20},
     pad \in {<<>>, <<" ">>}}
MixedSkillTexts ==
  {Join([k \in 1..Len(ws) |-> Chars(ws[k])], <<sep>>) :
     ws \in SeqsUpTo(MixWords, MaxSkillWords), sep \in {" ", "\n"}}

InitSkills ==
  /\ RecIdle
  /\ ExpIdle
  /\ ApiIdle
  /\ LoaderIdle
  /\ pc = "ready"
  /\ text \in SingleSkillTexts \cup MixedSkillTexts
  /\ passes = 0
  /\ NlpIdle
  /\ ParseIdle
  /\ PipelineIdle
  /\ MatchIdle
  /\ GapIdle
  /\ AtsIdle

ExtractSkills ==
  /\ pc = "ready"
  /\ skills' = extract_skills(text)
  /\ pc' = "done"
  /\ UNCHANGED <<recVars, expVars, apiVars, loaderVars>>
  /\ UNCHANGED <<parseVars, pipelineVars>>
  /\ UNCHANGED <<textVars, years, matchVars, gapVars, atsVars>>

NextSkills == ExtractSkills
SpecSkills == InitSkills /\ [][NextSkills]_vars

(***************************************************************************)
(* match_jobs on a list of jobs with the similarities the embedding        *)
(* service gives them                                                      *)
(***************************************************************************)
MaxJobs == 3
SimilarityValues == {-20, 30, 85}
TopKValues == -1..(MaxJobs + 1)

InitMatch ==
  /\ RecIdle
  /\ ExpIdle
  /\ ApiIdle
  /\ LoaderIdle
  /\ pc = "ready"
  /\ text = <<>>
  /\ passes = 0
  /\ NlpIdle
  /\ ParseIdle
  /\ PipelineIdle
  /\ similarities \in SeqsUpTo(SimilarityValues, MaxJobs)
  /\ top_k \in TopKValues
  /\ matches = <<>>
  /\ GapIdle
  /\ AtsIdle

MatchJobs ==
  /\ pc = "ready"
  /\ \E sorted \in ArgsortResults(similarities) :
       matches' = match_jobs(similarities, top_k, sorted)
  /\ pc' = "done"
  /\ UNCHANGED <<recVars, expVars, apiVars, loaderVars>>
  /\ UNCHANGED <<parseVars, pipelineVars>>
  /\ UNCHANGED <<textVars, nlpVars, similarities, top_k, gapVars, atsVars>>

NextMatch == MatchJobs
SpecMatch == InitMatch /\ [][NextMatch]_vars

(***************************************************************************)
(* analyze_skill_match on two lists of skills                              *)
(***************************************************************************)
MaxSkillList == 2
SkillNames == {"python", "Python", "sql", "java"}
\* what the embedding service may hold of the skills' closeness
ClosePairChoices == {{}, {{"java", "sql"}}, {{"java", "sql"}, {"java", "python"}}}

InitGap ==
  /\ RecIdle
  /\ ExpIdle
  /\ ApiIdle
  /\ LoaderIdle
  /\ pc = "ready"
  /\ text = <<>>
  /\ passes = 0
  /\ NlpIdle
  /\ ParseIdle
  /\ PipelineIdle
  /\ MatchIdle
  /\ resume_skills \in SeqsUpTo(SkillNames, MaxSkillList)
  /\ required_skills \in SeqsUpTo(SkillNames, MaxSkillList)
  /\ close_pairs \in ClosePairChoices
  /\ skill_gap = [total_required |-> 0]
  /\ AtsIdle

AnalyzeSkillMatch ==
  /\ pc = "ready"
  /\ \E missing_list \in MissingOrders(resume_skills, required_skills) :
       skill_gap' = analyze_skill_match(resume_skills, required_skills,
                                        missing_list, close_pairs)
  /\ pc' = "done"
  /\ UNCHANGED <<recVars, expVars, apiVars, loaderVars>>
  /\ UNCHANGED <<parseVars, pipelineVars>>
  /\ UNCHANGED <<textVars, nlpVars, matchVars, resume_skills, required_skills,
                 close_pairs, atsVars>>

NextGap == AnalyzeSkillMatch
SpecGap == InitGap /\ [][NextGap]_vars

(***************************************************************************)
(* _get_grade on the scores from 0 to 100 in steps of 1/GradeSteps         *)
(***************************************************************************)
GradeSteps == 10

InitGrade ==
  /\ RecIdle
  /\ ExpIdle
  /\ ApiIdle
  /\ LoaderIdle
  /\ pc = "ready"
  /\ text = <<>>
  /\ passes = 0
  /\ NlpIdle
  /\ ParseIdle
  /\ PipelineIdle
  /\ MatchIdle
  /\ GapIdle
  /\ job_description = <<>>
  /\ ats = [grade |-> ""]
  /\ contact = [issues |-> <<>>]
  /\ score \in {Frac(n, GradeSteps) : n \in 0..(100 * GradeSteps)}
  /\ grade = ""

GetGradeCall ==
  /\ pc = "ready"
  /\ grade' = GetGrade(score)
  /\ pc' = "done"
  /\ UNCHANGED <<recVars, expVars, apiVars, loaderVars>>
  /\ UNCHANGED <<parseVars, pipelineVars>>
  /\ UNCHANGED <<textVars, nlpVars, matchVars, gapVars, job_description, ats,
                 contact, score>>

NextGrade == GetGradeCall
SpecGrade == InitGrade /\ [][NextGrade]_vars

(***************************************************************************)
(* _calculate_contact_score on texts made of contact details               *)
(***************************************************************************)
MaxContactWords == 3
ContactWords ==
  {"a@b.co", "x@y", "555-123-4567", "(555)1234567", "555-1234",
   "LinkedIn.com/in/al", "Austin, TX", "austin, tx", "resume"}

InitContact ==
  /\ RecIdle
  /\ ExpIdle
  /\ ApiIdle
  /\ LoaderIdle
  /\ pc = "ready"
  /\ \E ws \in SeqsUpTo(ContactWords, MaxContactWords) :
       text = Join([k \in 1..Len(ws) |-> Chars(ws[k])], <<" ">>)
  /\ passes = 0
  /\ NlpIdle
  /\ ParseIdle
  /\ PipelineIdle
  /\ MatchIdle
  /\ GapIdle
  /\ AtsIdle

CalculateContactScore ==
  /\ pc = "ready"
  /\ contact' = ContactScore(text)
  /\ pc' = "done"
  /\ UNCHANGED <<recVars, expVars, apiVars, loaderVars>>
  /\ UNCHANGED <<parseVars, pipelineVars>>
  /\ UNCHANGED <<textVars, nlpVars, matchVars, gapVars, job_description, ats,
                 score, grade>>

NextContact == CalculateContactScore
SpecContact == InitContact /\ [][NextContact]_vars

(***************************************************************************)
(* calculate_score on resumes put together from the parts the five scores  *)
(* look for, with and without a job description                            *)
(***************************************************************************)
\* n times the character c
Repeat(c, n) == AsSeq([i \in 1..n |-> c])
\* n one-letter words with spaces between them
FillerWords(n) ==
  AsSeq([i \in 1..(2 * n - 1) |-> IF i % 2 = 1 THEN "x" ELSE " "])
\* the first n elements of a sequence of strings, as texts
FirstTexts(names, n) == [k \in 1..n |-> Chars(names[k])]
SectionHeadings ==
  <<"experience:", "Education:", "SKILLS:", "summary:", "contact:">>

ResumeSeparators == {" ", "\n"}
SpecialRuns == {MaxSpecialChars, MaxSpecialChars + 1}
SectionCounts == {0, 3, 5}
FillerWordCounts == {0, MinWordCount, MaxWordCount + 1}
ContactChoices ==
  {{}, {"email", "phone"}, {"email", "phone", "linkedin", "location"}}
JobDescriptions ==
  {"", "to do", "Senior Python developer with experience",
   "skills and experience"}

NonEmptyText(piece) == Len(piece) > 0
\* a resume with the given parts, sep between them
ResumeText(sep, specials, tab, sections, keywords, filler, numbers, verbs, details) ==
  Join(SelectSeq(
         FirstTexts(SectionHeadings, sections)
         \o <<IF keywords
                THEN Chars("professional objective achievements responsibilities projects")
                ELSE <<>>,
              IF verbs THEN Chars("Led managed developed") ELSE <<>>,
              IF numbers THEN Chars("1 2 3 40 2020") ELSE <<>>,
              IF "email" \in details THEN Chars("a@b.co") ELSE <<>>,
              IF "phone" \in details THEN Chars("555-123-4567") ELSE <<>>,
              IF "linkedin" \in details THEN Chars("linkedin.com/in/al") ELSE <<>>,
              IF "location" \in details THEN Chars("Austin, TX") ELSE <<>>,
              Repeat("#", specials),
              IF tab THEN <<"a", "\t", "b">> ELSE <<>>,
              FillerWords(filler)>>,
         NonEmptyText),
       <<sep>>)

InitAts ==
  /\ RecIdle
  /\ ExpIdle
  /\ ApiIdle
  /\ LoaderIdle
  /\ pc = "ready"
  /\ \E sep \in ResumeSeparators, specials \in SpecialRuns, tab \in BOOLEAN,
        sections \in SectionCounts, keywords \in BOOLEAN,
        filler \in FillerWordCounts, numbers \in BOOLEAN, verbs \in BOOLEAN,
        details \in ContactChoices :
       text = ResumeText(sep, specials, tab, sections, keywords, filler,
                         numbers, verbs, details)
  /\ passes = 0
  /\ NlpIdle
  /\ ParseIdle
  /\ PipelineIdle
  /\ MatchIdle
  /\ GapIdle
  /\ \E jd \in JobDescriptions : job_description = Chars(jd)
  /\ ats = [grade |-> ""]
  /\ contact = [issues |-> <<>>]
  /\ score = FracOfInt(0)
  /\ grade = ""

CalculateScore ==
  /\ pc = "ready"
  /\ ats' = calculate_score(text, job_description)
  /\ pc' = "done"
  /\ UNCHANGED <<recVars, expVars, apiVars, loaderVars>>
  /\ UNCHANGED <<parseVars, pipelineVars>>
  /\ UNCHANGED <<textVars, nlpVars, matchVars, gapVars, job_description,
                 contact, score, grade>>

NextAts == CalculateScore
SpecAts == InitAts /\ [][NextAts]_vars

(***************************************************************************)
(* calculate_score on short texts: none, blank ones, and the parts of a     *)
(* resume in a few words each                                               *)
(***************************************************************************)
ShortHeadings ==
  {"", "contact:", "contact: skills: experience:",
   "contact: skills: experience: education: summary:"}
ShortKeywords ==
  {"", "projects",
   "professional objective achievements responsibilities projects"}
ShortContacts ==
  {"", "al@b.co", "al@b.co 555-123-4567",
   "al@b.co 555-123-4567 linkedin.com/in/al Austin, TX"}
ShortVerbs == {"", "led managed built"}
ShortNumbers == {"", "1 2 3 4 5"}
ShortTerms == {"", "python developer"}
ShortJobDescriptions ==
  {"", " ", "to do", "python developer projects managed remote"}

InitAtsShort ==
  /\ RecIdle
  /\ ExpIdle
  /\ ApiIdle
  /\ LoaderIdle
  /\ pc = "ready"
  /\ \E sep \in ResumeSeparators, specials \in BOOLEAN, tab \in BOOLEAN,
        headings \in ShortHeadings, keywords \in ShortKeywords,
        details \in ShortContacts, verbs \in ShortVerbs,
        numbers \in ShortNumbers, terms \in ShortTerms :
       text = Join(SelectSeq(<<Chars(headings), Chars(details), Chars(terms),
                               Chars(verbs), Chars(keywords), Chars(numbers),
                               IF specials THEN Repeat("#", MaxSpecialChars + 1)
                               ELSE <<>>,
                               IF tab THEN <<"\t">> ELSE <<>>>>,
                             NonEmptyText), <<sep>>)
  /\ passes = 0
  /\ NlpIdle
  /\ ParseIdle
  /\ PipelineIdle
  /\ MatchIdle
  /\ GapIdle
  /\ \E jd \in ShortJobDescriptions : job_description = Chars(jd)
  /\ ats = [grade |-> ""]
  /\ contact = [issues |-> <<>>]
  /\ score = FracOfInt(0)
  /\ grade = ""

SpecAtsShort == InitAtsShort /\ [][NextAts]_vars

(***************************************************************************)
(* parse_file on text, PDF and DOCX files, on files of other kinds and on   *)
(* paths that lead to no file                                               *)
(***************************************************************************)
MaxFileLen == 5
Suffixes == {".pdf", ".PDF", ".docx", ".txt", ".Txt", ".doc", ""}
\* what open(path).read() gives on a text file
ReadOutcomes ==
  {Read(c) : c \in SeqsUpTo(CleanAlphabet, MaxFileLen)}
  \cup {Raised("UnicodeDecodeError", "invalid start byte"),
        Raised("PermissionError", "Permission denied")}
\* what the layout-aware extraction gives on a PDF: texts around the least
\* length parse_pdf accepts, bare and between spaces
PdfplumberOutcomes ==
  {Read(pad \o Repeat("x", n) \o pad) :
     n \in {0, MinPdfTextLen - 1, MinPdfTextLen, MinPdfTextLen + 1},
     pad \in {<<>>, <<" ">>}}
  \cup {Raised("PDFSyntaxError", "No /Root object")}
\* what the page-by-page extraction gives on a PDF
Pypdf2Outcomes ==
  {Read(Chars(c)) : c \in {"", "a # b", "Al a@b.co 555-123-4567"}}
  \cup {Raised("PdfReadError", "EOF marker not found")}
\* what Document(path) gives on a DOCX
DocxOutcomes ==
  {[raised |-> FALSE, paragraphs |-> [k \in 1..Len(ps) |-> Chars(ps[k])],
    cells |-> [k \in 1..Len(cs) |-> Chars(cs[k])]] :
     ps \in SeqsUpTo({"Al", " ", "a & b"}, 2), cs \in SeqsUpTo({"", "sql"}, 1)}
  \cup {Raised("PackageNotFoundError", "Package not found")}
NothingRead == Raised("OSError", "not read")

InitParse ==
  /\ RecIdle
  /\ ExpIdle
  /\ ApiIdle
  /\ LoaderIdle
  /\ pc = "ready"
  /\ text = <<>>
  /\ passes = 0
  /\ NlpIdle
  /\ MatchIdle
  /\ GapIdle
  /\ AtsIdle
  /\ PipelineIdle
  /\ \E exists \in BOOLEAN, suffix \in Suffixes :
     \E read \in IF exists /\ StrLower(suffix) = ".txt"
                   THEN ReadOutcomes ELSE {NothingRead},
        pdfplumber \in IF exists /\ StrLower(suffix) = ".pdf"
                         THEN PdfplumberOutcomes ELSE {NothingRead},
        pypdf2 \in IF exists /\ StrLower(suffix) = ".pdf"
                     THEN Pypdf2Outcomes ELSE {NothingRead},
        docx \in IF exists /\ StrLower(suffix) = ".docx"
                   THEN DocxOutcomes ELSE {NothingRead} :
       file = [exists |-> exists, name |-> "resume" \o suffix,
               suffix |-> suffix, read |-> read, pdfplumber |-> pdfplumber,
               pypdf2 |-> pypdf2, docx |-> docx]
  /\ parsed = [outcome |-> "none"]

ParseFile ==
  /\ pc = "ready"
  /\ parsed' = parse_file(ResumeParserInit, file)
  /\ pc' = "done"
  /\ UNCHANGED <<recVars, expVars, apiVars, loaderVars>>
  /\ UNCHANGED <<textVars, nlpVars, matchVars, gapVars, atsVars, file,
                 pipelineVars>>

NextParse == ParseFile
SpecParse == InitParse /\ [][NextParse]_vars

(***************************************************************************)
(* Two invocations of analyze_resume at once, their calls on the shared     *)
(* components in any order                                                  *)
(***************************************************************************)
Invocations == 1..2
\* the uploads: text files, and one that cannot be read
UploadTexts ==
  {"Experience: python dev 2019 - 2021 sql",
   "skills: java # aws\nwork history\nJan 2015 led team\n\n2018 built api",
   ""}
Uploads ==
  {[exists |-> TRUE, name |-> "resume.txt", suffix |-> ".txt",
    read |-> read, pdfplumber |-> NothingRead, pypdf2 |-> NothingRead,
    docx |-> NothingRead] :
     read \in {Read(Chars(t)) : t \in UploadTexts}
              \cup {Raised("UnicodeDecodeError", "invalid start byte")}}
UploadJobDescriptions == {"", "java and docker developer", "python sql"}
\* what the embedding model holds of the skills' closeness
UploadClosePairs == {{"java", "sql"}}

InitPipeline ==
  /\ RecIdle
  /\ ExpIdle
  /\ ApiIdle
  /\ LoaderIdle
  /\ pc = "ready"
  /\ text = <<>>
  /\ passes = 0
  /\ NlpIdle
  /\ ParseIdle
  /\ MatchIdle
  /\ GapIdle
  /\ AtsIdle
  /\ components = ComponentsInit
  /\ \E files \in [Invocations -> Uploads],
        jds \in [Invocations -> UploadJobDescriptions] :
       calls = [n \in Invocations |-> NewCall(files[n], Chars(jds[n]))]

\* the call the n-th invocation makes next has been made
Called(n, result) ==
  /\ components' = result.shared
  /\ calls' = [calls EXCEPT ![n] = result.call]
  /\ UNCHANGED <<recVars, expVars, apiVars, loaderVars>>
  /\ UNCHANGED <<pc, textVars, nlpVars, matchVars, gapVars, atsVars, parseVars>>

ParseFileCall ==
  \E n \in Invocations :
    /\ calls[n].at = "parse_file"
    /\ Called(n, ParseFileStep(components, calls[n]))
ExtractSkillsCall ==
  \E n \in Invocations :
    /\ calls[n].at = "extract_skills"
    /\ Called(n, ExtractSkillsStep(components, calls[n]))
ExtractExperienceCall ==
  \E n \in Invocations :
    /\ calls[n].at = "extract_experience"
    /\ Called(n, ExtractExperienceStep(components, calls[n]))
ExperienceYearsCall ==
  \E n \in Invocations :
    /\ calls[n].at = "calculate_experience_years"
    /\ Called(n, ExperienceYearsStep(components, calls[n]))
CalculateScoreCall ==
  \E n \in Invocations :
    /\ calls[n].at = "calculate_score"
    /\ Called(n, CalculateScoreStep(components, calls[n]))
SkillMatchCall ==
  \E n \in Invocations :
    /\ calls[n].at = "analyze_skill_match"
    /\ \E missing_list \in MissingOrders(AllResumeSkills(calls[n]),
                                         AllJdSkills(calls[n])) :
         Called(n, SkillMatchStep(components, calls[n], missing_list,
                                  UploadClosePairs))

NextPipeline ==
  \/ ParseFileCall
  \/ ExtractSkillsCall
  \/ ExtractExperienceCall
  \/ ExperienceYearsCall
  \/ CalculateScoreCall
  \/ SkillMatchCall
SpecPipeline == InitPipeline /\ [][NextPipeline]_vars

(***************************************************************************)
(* generate_recommendations on resumes around the word counts it looks at, *)
(* with and without a digit and an action verb                             *)
(***************************************************************************)
RecSimilarities == {-20, LowSimilarity - 1, LowSimilarity, 85}
RecWordCounts ==
  {0, 1, BriefWordCount - 2, BriefWordCount - 1, BriefWordCount,
   LongWordCount - 2, LongWordCount - 1, LongWordCount, LongWordCount + 1}
RecNumbers == {"", "7", "x2"}
RecVerbs == {"", "led", "Managed", "misled", "build"}

InitRecommend ==
  /\ ExpIdle
  /\ ApiIdle
  /\ LoaderIdle
  /\ pc = "ready"
  /\ \E n \in RecWordCounts, number \in RecNumbers, verb \in RecVerbs :
       text = Join(SelectSeq(<<FillerWords(n), Chars(number), Chars(verb)>>,
                             NonEmptyText), <<" ">>)
  /\ passes = 0
  /\ NlpIdle
  /\ ParseIdle
  /\ PipelineIdle
  /\ MatchIdle
  /\ GapIdle
  /\ AtsIdle
  /\ similarity \in RecSimilarities
  /\ recommendations = <<>>

GenerateRecommendations ==
  /\ pc = "ready"
  /\ recommendations' = generate_recommendations(text, similarity)
  /\ pc' = "done"
  /\ UNCHANGED <<textVars, nlpVars, matchVars, gapVars, atsVars, parseVars,
                 pipelineVars, similarity, expVars, apiVars, loaderVars>>

NextRecommend == GenerateRecommendations
SpecRecommend == InitRecommend /\ [][NextRecommend]_vars

(***************************************************************************)
(* extract_experience on texts of a few lines: a line that may name the     *)
(* section, then lines with and without dates and blank lines               *)
(***************************************************************************)
MaxExpLines == 4
ExpFirstLines ==
  {"skills: sql", "Experience", "Work History: 2018", "my employment",
   "inexperienced"}
ExpLines == {"", " ", "Jan 2020 dev", " 2019 - sept 2021", "built api", "lead"}

InitExperience ==
  /\ RecIdle
  /\ ApiIdle
  /\ LoaderIdle
  /\ pc = "ready"
  /\ \E first \in ExpFirstLines, lines \in SeqsUpTo(ExpLines, MaxExpLines) :
       text = Join(<<Chars(first)>> \o [k \in 1..Len(lines) |-> Chars(lines[k])],
                   <<"\n">>)
  /\ passes = 0
  /\ NlpIdle
  /\ ParseIdle
  /\ PipelineIdle
  /\ MatchIdle
  /\ GapIdle
  /\ AtsIdle
  /\ ExpIdle

\* extract_experience(text), section being its exp_section
ExtractExperience ==
  /\ pc = "ready"
  /\ section' = find_section(text, ExperienceKeywords)
  /\ experiences' = extract_experience(text)
  /\ pc' = "done"
  /\ UNCHANGED <<textVars, nlpVars, matchVars, gapVars, atsVars, parseVars,
                 pipelineVars, recVars, apiVars, loaderVars>>

NextExperience == ExtractExperience
SpecExperience == InitExperience /\ [][NextExperience]_vars

(***************************************************************************)
(* _find_section on texts with one or two of the keywords, a heading        *)
(* around 50 characters behind the keyword, and letters outside ASCII       *)
(***************************************************************************)
SectionPrefixes ==
  {<<>>, Chars("skills: sql\n"), <<CapitalIDot>> \o Chars("stanbul\n")}
SectionKeywordLines ==
  {"Experience", "my employment and experience", "inexperienced",
   "WORK HISTORY", "work  history"}
\* how many characters lie between the keyword line and the heading
SectionFillers == {0, SectionSkip - 12, SectionSkip - 11, SectionSkip - 10,
                   SectionSkip}
SectionHeadingLines ==
  {"", "\nEDUCATION AND\n", "\nAB\nCD\nEF GH\n", "\nEducation \n",
   "\nSKILLS\n"}

InitSection ==
  /\ RecIdle
  /\ ApiIdle
  /\ LoaderIdle
  /\ pc = "ready"
  /\ \E prefix \in SectionPrefixes, line \in SectionKeywordLines,
        n \in SectionFillers, heading \in SectionHeadingLines :
       text = prefix \o Chars(line) \o <<" ">> \o Repeat("x", n)
              \o Chars(heading)
              \o Chars("BSc 2012")
  /\ passes = 0
  /\ NlpIdle
  /\ ParseIdle
  /\ PipelineIdle
  /\ MatchIdle
  /\ GapIdle
  /\ AtsIdle
  /\ ExpIdle

\* self._find_section(text, ['experience', 'employment', 'work history'])
FindSection ==
  /\ pc = "ready"
  /\ section' = find_section(text, ExperienceKeywords)
  /\ pc' = "done"
  /\ UNCHANGED <<textVars, nlpVars, matchVars, gapVars, atsVars, parseVars,
                 pipelineVars, recVars, experiences, apiVars, loaderVars>>

NextSection == FindSection
SpecSection == InitSection /\ [][NextSection]_vars

(***************************************************************************)
(* Requests to /api/analyze and /api/match-jobs, some of them failing       *)
(***************************************************************************)
MaxRequests == 2
\* the uploads: a resume, a file that is no UTF-8 text, one of another
\* kind, one that is too large
ApiUpload(suffix, size, read) ==
  [exists |-> TRUE, name |-> "upload" \o suffix, suffix |-> suffix,
   size_mb |-> size, read |-> read, pdfplumber |-> NothingRead,
   pypdf2 |-> NothingRead, docx |-> NothingRead]
ApiUploads ==
  {ApiUpload(".txt", 1, Read(Chars("skills: sql 2019"))),
   ApiUpload(".txt", 1, Raised("UnicodeDecodeError", "invalid start byte")),
   ApiUpload(".doc", 1, Read(Chars("skills: sql 2019"))),
   ApiUpload(".txt", MaxUploadMb + 1, Read(Chars("skills: sql 2019")))}

InitApi ==
  /\ RecIdle
  /\ ExpIdle
  /\ LoaderIdle
  /\ pc = "ready"
  /\ text = <<>>
  /\ passes = 0
  /\ NlpIdle
  /\ ParseIdle
  /\ PipelineIdle
  /\ MatchIdle
  /\ GapIdle
  /\ AtsIdle
  /\ temp_files = {}
  /\ requests = <<>>

ApiUnchanged ==
  UNCHANGED <<pc, textVars, nlpVars, matchVars, gapVars, atsVars, parseVars,
              pipelineVars, recVars, expVars, loaderVars>>

\* a request arrives and its handler writes the upload to a temp file
SaveUpload ==
  /\ Len(requests) < MaxRequests
  /\ \E handler \in {"analyze_resume", "match_jobs"}, upload \in ApiUploads,
        jd \in {"", "python"}, encoder_raises \in BOOLEAN :
       /\ handler = "match_jobs" => jd = ""
       /\ requests' = Append(requests,
            SavedUpload([handler |-> handler, upload |-> upload,
                         job_description |-> Chars(jd),
                         encoder_raises |-> encoder_raises,
                         at |-> "received", tmp_file_path |-> 0,
                         status |-> 0, raised_in |-> ""],
                        Len(requests) + 1))
  /\ temp_files' = temp_files \cup {Len(requests) + 1}
  /\ ApiUnchanged

\* analyze_resume from validate_file_upload to its answer
AnalyzeResume ==
  \E n \in DOMAIN requests :
    /\ requests[n].handler = "analyze_resume"
    /\ requests[n].at = "saved"
    /\ LET after == Answered(requests[n], AnalyzeRaises(requests[n]), temp_files)
       IN /\ requests' = [requests EXCEPT ![n] = after.request]
          /\ temp_files' = after.files
    /\ ApiUnchanged

\* match_jobs from parse_file to its answer
MatchJobsRequest ==
  \E n \in DOMAIN requests :
    /\ requests[n].handler = "match_jobs"
    /\ requests[n].at = "saved"
    /\ LET after == Answered(requests[n], MatchJobsRaises(requests[n]), temp_files)
       IN /\ requests' = [requests EXCEPT ![n] = after.request]
          /\ temp_files' = after.files
    /\ ApiUnchanged

NextApi == SaveUpload \/ AnalyzeResume \/ MatchJobsRequest
SpecApi == InitApi /\ [][NextApi]_vars

(***************************************************************************)
(* analyze_resume from the parse to the score, on uploads with tabs and    *)
(* with characters clean_text removes                                      *)
(***************************************************************************)
\* how many removable characters the upload holds, and which
FormatSpecialCounts == {0, MaxSpecialChars, MaxSpecialChars + 1}
FormatSpecials == {"#", "*"}
\* what stands between the parts of the upload
FormatSeparators == {<<" ">>, <<"\t">>, <<"\n">>, <<"\t", "\r", "\n", "\t">>}
\* the words of the upload, under and from MinAvgLineLength characters on
FormatBodies ==
  {"", "Al", "python dev 2019-2021", "python dev 2019-21",
   "Experience: a@b.co (sql)"}
FormatJobDescriptions == {<<>>, Chars("python developer")}

InitFormat ==
  /\ RecIdle
  /\ ExpIdle
  /\ ApiIdle
  /\ LoaderIdle
  /\ pc = "ready"
  /\ text = <<>>
  /\ passes = 0
  /\ NlpIdle
  /\ MatchIdle
  /\ GapIdle
  /\ PipelineIdle
  /\ \E n \in FormatSpecialCounts, c \in FormatSpecials,
        sep \in FormatSeparators, body \in FormatBodies :
       file = [exists |-> TRUE, name |-> "resume.txt", suffix |-> ".txt",
               read |-> Read(sep \o Chars(body) \o sep \o Repeat(c, n)
                             \o sep \o Chars(body)),
               pdfplumber |-> NothingRead, pypdf2 |-> NothingRead,
               docx |-> NothingRead]
  /\ parsed = [outcome |-> "none"]
  /\ job_description \in FormatJobDescriptions
  /\ ats = [grade |-> ""]
  /\ contact = [issues |-> <<>>]
  /\ score = FracOfInt(0)
  /\ grade = ""

\* parsed_data = resume_parser.parse_file(tmp_file_path)
ParseUpload ==
  /\ pc = "ready"
  /\ parsed' = parse_file(ResumeParserInit, file)
  /\ pc' = "parsed"
  /\ UNCHANGED <<recVars, expVars, apiVars, loaderVars>>
  /\ UNCHANGED <<textVars, nlpVars, matchVars, gapVars, atsVars, file,
                 pipelineVars>>
\* ats_score = ats_scorer.calculate_score(resume_text, job_description)
ScoreUpload ==
  /\ pc = "parsed"
  /\ parsed.outcome = "returned"
  /\ ats' = calculate_score(parsed.cleaned_text, job_description)
  /\ pc' = "scored"
  /\ UNCHANGED <<recVars, expVars, apiVars, loaderVars>>
  /\ UNCHANGED <<textVars, nlpVars, matchVars, gapVars, parseVars,
                 pipelineVars, job_description, contact, score, grade>>

NextFormat == ParseUpload \/ ScoreUpload
SpecFormat == InitFormat /\ [][NextFormat]_vars

(***************************************************************************)
(* Calls on ModelLoader() handles, one after the other                     *)
(***************************************************************************)
MaxLoaderCalls == 5
ModelNames == {"all-MiniLM-L6-v2", "en_core_web_sm"}

InitLoader ==
  /\ pc = "ready"
  /\ text = <<>>
  /\ passes = 0
  /\ NlpIdle
  /\ ParseIdle
  /\ PipelineIdle
  /\ MatchIdle
  /\ GapIdle
  /\ AtsIdle
  /\ RecIdle
  /\ ExpIdle
  /\ ApiIdle
  /\ loader = ModelLoaderClass
  /\ loads = <<>>

\* the handles ModelLoader() has returned so far
Handles ==
  {loads[k].value : k \in {j \in DOMAIN loads : loads[j].call = "ModelLoader"}}
\* a call made: the class as the call leaves it, and the call written down
\* with what it was made on and what came out of it
LoaderCalled(call, self, model_name, result) ==
  /\ loader' = result.cls
  /\ loads' = Append(loads, [call |-> call, self |-> self,
                             model_name |-> model_name,
                             outcome |-> result.outcome,
                             value |-> result.value,
                             constructed |-> result.constructed,
                             models |-> result.cls._models])
  /\ UNCHANGED <<pc, textVars, nlpVars, matchVars, gapVars, atsVars, parseVars,
                 pipelineVars, recVars, expVars, apiVars>>

NewModelLoader ==
  /\ Len(loads) < MaxLoaderCalls
  /\ LoaderCalled("ModelLoader", None, "", ModelLoaderNew(loader))
LoadSentenceTransformer ==
  /\ Len(loads) < MaxLoaderCalls
  /\ \E self \in Handles, model_name \in ModelNames, built \in BOOLEAN :
       LoaderCalled("load_sentence_transformer", self, model_name,
                    load_sentence_transformer(loader, model_name, built))
LoadSpacyModel ==
  /\ Len(loads) < MaxLoaderCalls
  /\ \E self \in Handles, model_name \in ModelNames, built \in BOOLEAN :
       LoaderCalled("load_spacy_model", self, model_name,
                    load_spacy_model(loader, model_name, built))
ClearCache ==
  /\ Len(loads) < MaxLoaderCalls
  /\ \E self \in Handles :
       LoaderCalled("clear_cache", self, "", clear_cache(loader))
GetLoadedModels ==
  /\ Len(loads) < MaxLoaderCalls
  /\ \E self \in Handles :
       LoaderCalled("get_loaded_models", self, "", get_loaded_models(loader))

NextLoader ==
  \/ NewModelLoader
  \/ LoadSentenceTransformer
  \/ LoadSpacyModel
  \/ ClearCache
  \/ GetLoadedModels
SpecLoader == InitLoader /\ [][NextLoader]_vars

(***************************************************************************)
(* Claims                                                                  *)
(***************************************************************************)
\* C1: clean_text is idempotent: cleaning a text that clean_text returned
\* gives the same text back.
C1_CleanTextIdempotent == passes >= 1 => clean_text(text) = text

\* the year tokens the claim speaks of: the 4-digit words in 1900..2099
YearTokenValues(t) ==
  {IntOf(SubSeq(t, i, i + 3)) : i \in {j \in 1..Len(t) : YearPatternAt(t, j)}}
YearTokenCount(t) == Cardinality({j \in 1..Len(t) : YearPatternAt(t, j)})
SetMin(S) == CHOOSE x \in S : \A y \in S : x <= y
SetMax(S) == CHOOSE x \in S : \A y \in S : x >= y
\* C3: calculate_experience_years returns max(year) - min(year) of the year
\* tokens of the text, at most 50, and 0 for fewer than two year tokens.
C3_YearsSpan ==
  pc = "done" =>
    years = IF YearTokenCount(text) < 2 THEN 0
            ELSE Min2(SetMax(YearTokenValues(text)) - SetMin(YearTokenValues(text)), 50)

\* the skills extract_skills returned under a category (none: the category
\* is not a key of the result)
SkillsUnder(result, category) ==
  UNION {Range(result[k].skills) :
           k \in {j \in DOMAIN result : result[j].category = category}}
\* C7: a text that is a catalog skill in any letter case, alone or between
\* spaces, yields that skill under its category.
C7_SkillsCaseInsensitive ==
  pc = "done" =>
    \A k \in DOMAIN TECH_SKILLS : \A s \in Range(TECH_SKILLS[k].skills) :
      Lower(Strip(text)) = Chars(s)
        => s \in SkillsUnder(skills, TECH_SKILLS[k].category)

\* the position of a category in the catalog, of a skill in its category
CategoryIndex(category) ==
  CHOOSE k \in DOMAIN TECH_SKILLS : TECH_SKILLS[k].category = category
SkillIndex(k, skill) ==
  CHOOSE j \in DOMAIN TECH_SKILLS[k].skills : TECH_SKILLS[k].skills[j] = skill
\* C8: in a result of extract_skills no category has an empty list, the
\* categories come in catalog order, and the skills of a category are skills
\* of that category in catalog order, each at most once; another call on the
\* same text gives the same result.
C8_SkillSetShape ==
  pc = "done" =>
    /\ skills = extract_skills(text)
    /\ \A a \in DOMAIN skills :
         /\ skills[a].skills # <<>>
         /\ skills[a].category \in {TECH_SKILLS[k].category : k \in DOMAIN TECH_SKILLS}
         /\ Range(skills[a].skills)
              \subseteq Range(TECH_SKILLS[CategoryIndex(skills[a].category)].skills)
         /\ \A i, j \in DOMAIN skills[a].skills :
              i < j => SkillIndex(CategoryIndex(skills[a].category), skills[a].skills[i])
                       < SkillIndex(CategoryIndex(skills[a].category), skills[a].skills[j])
    /\ \A a, b \in DOMAIN skills :
         a < b => CategoryIndex(skills[a].category) < CategoryIndex(skills[b].category)
\* a text that names a cloud skill before the programming skills, and the
\* programming skills against their catalog order, has been processed
C8_Witness ==
  /\ pc = "done"
  /\ text = Chars("aws SQL python")
  /\ skills = <<[category |-> "programming", skills |-> <<"python", "sql">>],
                [category |-> "cloud", skills |-> <<"aws">>]>>

\* C4 as stated: the results of match_jobs are in strictly descending
\* similarity order, ranked 1..K, with K = min(top_k, len(jobs)) for
\* top_k >= 0 and no result for no job.
C4_StrictlyDescending ==
  pc = "done" =>
    /\ \A a, b \in DOMAIN matches :
         a < b => matches[a].similarity_score > matches[b].similarity_score
    /\ \A a \in DOMAIN matches : matches[a].rank = a
    /\ Len(matches) <= Len(similarities)
    /\ top_k >= 0 => Len(matches) = Min2(top_k, Len(similarities))
    /\ Len(similarities) = 0 => matches = <<>>
\* C4 amended: the results of match_jobs are in descending similarity order,
\* jobs of equal similarity next to each other, ranked 1..K, with
\* K = min(top_k, len(jobs)) for top_k >= 0 and no result for no job.
C4_Descending ==
  pc = "done" =>
    /\ \A a, b \in DOMAIN matches :
         a < b => matches[a].similarity_score >= matches[b].similarity_score
    /\ \A a \in DOMAIN matches :
         /\ matches[a].rank = a
         /\ matches[a].job \in DOMAIN similarities
         /\ matches[a].similarity_score = similarities[matches[a].job]
    /\ Len(matches) <= Len(similarities)
    /\ top_k >= 0 => Len(matches) = Min2(top_k, Len(similarities))
    /\ Len(similarities) = 0 => matches = <<>>
\* two of three jobs were asked for and returned; the job left out is less
\* similar than the two, which differ
C4_Witness ==
  /\ pc = "done"
  /\ Len(similarities) = 3
  /\ top_k = 2
  /\ Len(matches) = 2
  /\ matches[1].similarity_score > matches[2].similarity_score
  /\ matches[1].job > matches[2].job

\* C5: jobs of equal similarity are ranked in the order of the job list, and
\* of a group of equal jobs cut by top_k the earlier ones are kept.
C5_TiesInCatalogOrder ==
  pc = "done" =>
    /\ \A a, b \in DOMAIN matches :
         (a < b /\ matches[a].similarity_score = matches[b].similarity_score)
           => matches[a].job < matches[b].job
    /\ \A a \in DOMAIN matches : \A i \in DOMAIN similarities :
         (i < matches[a].job /\ similarities[i] = matches[a].similarity_score)
           => \E b \in DOMAIN matches : matches[b].job = i

\* C6: analyze_skill_match lower-cases both lists; matching is the
\* intersection of the two sets of skills, missing is required minus resume,
\* the two are disjoint and make up the required set; match_percentage is
\* |matching| / len(required) * 100, or 0 for no required skill;
\* total_required is len(required) and total_matched is |matching|.
C6_SkillMatch ==
  pc = "done" =>
    LET res == {StrLower(resume_skills[i]) : i \in DOMAIN resume_skills}
        req == {StrLower(required_skills[i]) : i \in DOMAIN required_skills}
    IN /\ skill_gap.matching_skills = res \cap req
       /\ skill_gap.missing_skills = req \ res
       /\ skill_gap.matching_skills \cap skill_gap.missing_skills = {}
       /\ skill_gap.matching_skills \cup skill_gap.missing_skills = req
       /\ skill_gap.match_percentage.den > 0
       /\ IF Len(required_skills) = 0
            THEN skill_gap.match_percentage.num = 0
            ELSE skill_gap.match_percentage.num * Len(required_skills)
                 = 100 * Cardinality(skill_gap.matching_skills)
                   * skill_gap.match_percentage.den
       /\ skill_gap.total_required = Len(required_skills)
       /\ skill_gap.total_matched = Cardinality(skill_gap.matching_skills)
\* the example of the specification: resume [python, sql] against required
\* [python, java] gives {python}, {java}, 50.0, 2, 1
C6_Witness ==
  /\ pc = "done"
  /\ resume_skills = <<"python", "sql">>
  /\ required_skills = <<"python", "java">>
  /\ skill_gap.matching_skills = {"python"}
  /\ skill_gap.missing_skills = {"java"}
  /\ FracEq(skill_gap.match_percentage, FracOfInt(50))
  /\ skill_gap.total_required = 2
  /\ skill_gap.total_matched = 1

\* the difference of two fractions, and whether a fraction lies in [lo, hi]
FracSub(a, b) == Frac(a.num * b.den - b.num * a.den, a.den * b.den)
FracIn(x, lo, hi) == FracLe(FracOfInt(lo), x) /\ FracLe(x, FracOfInt(hi))

\* 0.30*format + 0.25*sections + 0.20*keywords + 0.15*content + 0.10*contact
C2_WeightedSum(scores) ==
  FracAdd(FracMul(Frac(30, 100), scores.format.score),
  FracAdd(FracMul(Frac(25, 100), scores.sections.score),
  FracAdd(FracMul(Frac(20, 100), scores.keywords.score),
  FracAdd(FracMul(Frac(15, 100), scores.content.score),
          FracMul(Frac(10, 100), scores.contact.score)))))

\* C2: in every result of calculate_score, with or without a job
\* description, each of the five category scores lies in [0,100], overall_score
\* lies in [0,100], and overall_score is a number of tenths no further than
\* half a tenth from 0.30*format + 0.25*sections + 0.20*keywords +
\* 0.15*content + 0.10*contact of the returned category scores.
C2_OverallScore ==
  pc = "done" =>
    LET weighted == C2_WeightedSum(ats.category_scores)
    IN /\ \A k \in 1..Len(Categories) :
            FracIn(ats.category_scores[Categories[k]].score, 0, 100)
       /\ FracIn(ats.overall_score, 0, 100)
       /\ 10 % ats.overall_score.den = 0
       /\ FracLe(FracSub(ats.overall_score, weighted), Frac(1, 20))
       /\ FracLe(FracSub(weighted, ats.overall_score), Frac(1, 20))
\* a result for a resume scored against a job description whose weighted sum
\* is not a number of tenths, so that the rounding changed it
C2_Witness ==
  /\ pc = "done"
  /\ Len(job_description) > 0
  /\ ~FracEq(ats.overall_score, C2_WeightedSum(ats.category_scores))
  /\ FracLt(ats.category_scores.format.score, ats.category_scores.contact.score)

\* C9: the contact score is 40 for an email pattern in the text, plus 30 for a
\* phone pattern, plus 20 for a LinkedIn pattern, plus 10 for a 'City, ST'
\* pattern; it lies in [0,100]; and a text with an email and a phone, no
\* LinkedIn address and no location scores exactly 70.
C9_ContactScore ==
  pc = "done" =>
    /\ contact.score =
         FracOfInt((IF EmailFound(text) THEN 40 ELSE 0)
                   + (IF PhoneFound(text) THEN 30 ELSE 0)
                   + (IF LinkedInFound(text) THEN 20 ELSE 0)
                   + (IF LocationFound(text) THEN 10 ELSE 0))
    /\ FracIn(contact.score, 0, 100)
    /\ (contact.found_contact = <<"email", "phone">>
          => contact.score = FracOfInt(70))
    /\ (text = Chars("a@b.co 555-123-4567") => contact.score = FracOfInt(70))
    /\ (text = Chars("LinkedIn.com/in/al Austin, TX")
          => contact.score = FracOfInt(30))
C9_Witness ==
  /\ pc = "done"
  /\ text = Chars("a@b.co 555-123-4567")
  /\ contact.found_contact = <<"email", "phone">>
  /\ contact.score = FracOfInt(70)

\* C10: _get_grade gives A+ from 90 on, A from 80 to under 90, B from 70 to
\* under 80, C from 60 to under 70 and D under 60: 90.0 is A+, 89.9 is A,
\* 80.0 is A, 79.9 is B, 70.0 is B, 69.9 is C, 60.0 is C and 59.9 is D.
C10_GradeBoundaries ==
  pc = "done" =>
    LET AtLeast(n) == score.num >= n * score.den
        Is(tenths) == score.num * 10 = tenths * score.den
    IN /\ grade \in {"A+", "A", "B", "C", "D"}
       /\ grade = "A+" <=> AtLeast(90)
       /\ grade = "A" <=> AtLeast(80) /\ ~AtLeast(90)
       /\ grade = "B" <=> AtLeast(70) /\ ~AtLeast(80)
       /\ grade = "C" <=> AtLeast(60) /\ ~AtLeast(70)
       /\ grade = "D" <=> ~AtLeast(60)
       /\ (Is(900) => grade = "A+") /\ (Is(899) => grade = "A")
       /\ (Is(800) => grade = "A") /\ (Is(799) => grade = "B")
       /\ (Is(700) => grade = "B") /\ (Is(699) => grade = "C")
       /\ (Is(600) => grade = "C") /\ (Is(599) => grade = "D")
C10_Witness == pc = "done" /\ score = Frac(900, 10) /\ grade = "A+"

\* a text file that exists and was read
TextFileRead ==
  file.exists /\ StrLower(file.suffix) = ".txt" /\ ~file.read.raised
\* C11: parsing a text file with content c gives word_count = len(c.split())
\* and char_count = len(cleaned_text).
C11_RoundTrip ==
  (pc = "done" /\ TextFileRead) =>
    /\ parsed.outcome = "returned"
    /\ parsed.word_count = WordCount(file.read.text)
    /\ parsed.char_count = Len(parsed.cleaned_text)

\* C12: the normalized text of a parsed document has no tab, no carriage
\* return, no two whitespace characters next to each other and no whitespace
\* at either end.
C12_NormalizedText ==
  (pc = "done" /\ parsed.outcome = "returned") =>
    LET t == parsed.cleaned_text
    IN /\ \A i \in 1..Len(t) : t[i] \notin {"\t", "\r"}
       /\ \A i \in 1..(Len(t) - 1) : ~(IsSpace(t[i]) /\ IsSpace(t[i + 1]))
       /\ Len(t) > 0 => ~IsSpace(t[1]) /\ ~IsSpace(t[Len(t)])

\* C13: parse_file raises FileNotFoundError exactly for a path with no file,
\* whatever its extension, and the ValueError 'Unsupported file format'
\* exactly for a file whose extension is none of .pdf, .docx, .txt in any
\* letter case; in both cases it extracts, cleans and scans nothing.
C13_NotFoundUnsupported ==
  pc = "done" =>
    LET supported == StrLower(file.suffix) \in {".pdf", ".docx", ".txt"}
        not_found == /\ parsed.outcome = "raised"
                     /\ parsed.type = "FileNotFoundError"
        unsupported ==
          /\ parsed.outcome = "raised"
          /\ parsed.type = "ValueError"
          /\ parsed.message = "Unsupported file format: " \o StrLower(file.suffix)
    IN /\ not_found <=> ~file.exists
       /\ unsupported <=> (file.exists /\ ~supported)
       /\ (not_found \/ unsupported) => parsed.steps = <<>>
\* a path with an extension that is not supported and no file behind it was
\* given, and FileNotFoundError raised
C13_Witness ==
  /\ pc = "done"
  /\ ~file.exists
  /\ file.suffix = ".doc"
  /\ parsed.type = "FileNotFoundError"
  /\ parsed.steps = <<>>

\* the exception the reader of a supported file raised, if it raised one
ReaderFailure ==
  LET extension == StrLower(file.suffix)
      fallback == \/ Len(file.pdfplumber.text) = 0
                  \/ Len(Strip(file.pdfplumber.text)) <= MinPdfTextLen
  IN IF ~file.exists THEN <<>>
     ELSE IF extension = ".txt" /\ file.read.raised
       THEN <<[kind |-> "TXT", cause |-> file.read.message]>>
     ELSE IF extension = ".docx" /\ file.docx.raised
       THEN <<[kind |-> "DOCX", cause |-> file.docx.message]>>
     ELSE IF extension = ".pdf" /\ file.pdfplumber.raised
       THEN <<[kind |-> "PDF", cause |-> file.pdfplumber.message]>>
     ELSE IF extension = ".pdf" /\ fallback /\ file.pypdf2.raised
       THEN <<[kind |-> "PDF", cause |-> file.pypdf2.message]>>
     ELSE <<>>
\* C14: when the reader of a PDF, DOCX or text file raises, parse_file raises
\* the extraction failure (a ValueError 'Failed to parse ...') whose message
\* ends with the cause; the reader's own exception does not come out.
C14_ExtractionFailed ==
  (pc = "done" /\ ReaderFailure # <<>>) =>
    /\ parsed.outcome = "raised"
    /\ parsed.type = "ValueError"
    /\ \E kind \in {"PDF", "DOCX", "TXT", "file", "text"} :
         parsed.message = "Failed to parse " \o kind \o ": "
                          \o ReaderFailure[1].cause

\* C19: parse_pdf goes on to the page-by-page extraction exactly when the
\* layout-aware text, stripped, is shorter than 50 characters; a layout-aware
\* text of stripped length 50 or more is what parse_pdf returns.
C19_PdfFallback ==
  (/\ pc = "done"
   /\ file.exists
   /\ StrLower(file.suffix) = ".pdf"
   /\ ~file.pdfplumber.raised) =>
    LET long == Len(Strip(file.pdfplumber.text)) >= 50
    IN /\ "_parse_with_pdfplumber" \in Range(parsed.steps)
       /\ "_parse_with_pypdf2" \in Range(parsed.steps) <=> ~long
       /\ long => /\ parsed.outcome = "returned"
                  /\ parsed.cleaned_text = clean_text(file.pdfplumber.text)

\* C17: the grade of a result of calculate_score is the grade of the
\* overall_score of that result: A+ from 90.0 on, A from 80.0, B from 70.0,
\* C from 60.0, D below.
C17_GradeOfReportedScore ==
  (pc = "done" /\ "overall_score" \in DOMAIN ats) =>
    LET AtLeast(n) == ats.overall_score.num >= n * ats.overall_score.den
    IN ats.grade = IF AtLeast(90) THEN "A+"
                   ELSE IF AtLeast(80) THEN "A"
                   ELSE IF AtLeast(70) THEN "B"
                   ELSE IF AtLeast(60) THEN "C"
                   ELSE "D"


\* a text with no word in it: the empty one, or whitespace only
BlankText(t) == \A i \in 1..Len(t) : IsSpace(t[i])

\* C15: calculate_score returns a result and raises nothing for every text
\* and job description, the empty and the blank text and a job description
\* with no word longer than 4 characters included: the result has a score
\* from 0 to 100, a score and issues for each category, a feedback list and
\* a grade, no divisor is 0, and a warning cites the first issue of a
\* category only if the category has one
C15_Total ==
  pc = "done" =>
    /\ DOMAIN ats = {"overall_score", "category_scores", "feedback", "grade"}
    /\ ScoreErrors(text, job_description) = {}
    /\ FracIn(ats.overall_score, 0, 100)
    /\ ats.grade \in {"A+", "A", "B", "C", "D"}
    /\ Len(ats.feedback) > 0
    /\ \A k \in 1..Len(Categories) :
         LET data == ats.category_scores[Categories[k]]
         IN /\ FracIn(data.score, 0, 100)
            /\ Len(data.issues) = 0 =>
                 \A j \in 1..Len(ats.feedback) :
                   ats.feedback[j].category = StrUpper(Categories[k]) =>
                     ats.feedback[j].message
                       \in {"Needs improvement", "Excellent"}
C15_Witness ==
  /\ pc = "done"
  /\ BlankText(text)
  /\ Len(job_description) > 0
  /\ JdWords(job_description) = {}
  /\ ats.category_scores.content.word_count = 0
  /\ ats.category_scores.keywords.score = FracOfInt(0)
  /\ ats.grade = "D"


\* the categories that get a feedback line, in category order: those scoring
\* under 60 or from 80 on
MarkedCategories(scores) ==
  LET Marked(category) ==
        \/ FracLt(scores[category].score, FracOfInt(60))
        \/ FracLe(FracOfInt(80), scores[category].score)
  IN SelectSeq(Categories, Marked)
\* the feedback has one line per marked category, in category order: a
\* warning citing the first issue under 60, a success from 80 on
LinePerMarkedCategory(scores, feedback) ==
  LET marked == MarkedCategories(scores)
  IN /\ Len(feedback) = Len(marked)
     /\ \A j \in 1..Len(marked) :
          LET data == scores[marked[j]]
          IN /\ feedback[j].category = StrUpper(marked[j])
             /\ IF FracLt(data.score, FracOfInt(60))
                  THEN /\ feedback[j].mark = "warning"
                       /\ Len(data.issues) > 0
                       /\ feedback[j].message = data.issues[1]
                  ELSE feedback[j].mark = "success"

\* C18 as stated: the feedback of calculate_score has, in category order,
\* one warning citing the first issue for every category under 60 and one
\* success for every category from 80 on, and no other line
C18_FeedbackLines ==
  pc = "done" => LinePerMarkedCategory(ats.category_scores, ats.feedback)
\* C18: the feedback of calculate_score has, in category order, one warning
\* citing the first issue for every category under 60 and one success for
\* every category from 80 on, and no other line, except that when every
\* category scores in [60,80) it is the one line 'Overall good ATS
\* compatibility'
C18_FeedbackLinesOrFallback ==
  pc = "done" =>
    IF MarkedCategories(ats.category_scores) = <<>>
      THEN /\ Len(ats.feedback) = 1
           /\ ats.feedback[1].mark = "none"
           /\ ats.feedback[1].message = "Overall good ATS compatibility"
      ELSE LinePerMarkedCategory(ats.category_scores, ats.feedback)
\* a resume with a warning, a success and a category in between that has
\* no line
C18_Witness ==
  /\ pc = "done"
  /\ FracLt(ats.category_scores.sections.score, FracOfInt(60))
  /\ FracLe(FracOfInt(80), ats.category_scores.format.score)
  /\ FracIn(ats.category_scores.contact.score, 60, 79)
  /\ Len(ats.feedback) < Len(Categories)
  /\ ats.feedback[1].mark = "success"
  /\ ats.feedback[2].mark = "warning"


\* the common ATS keywords that occur in a text, lower case
CommonKeywordsIn(t) ==
  {k \in 1..Len(COMMON_ATS_KEYWORDS) :
     Contains(Lower(t), Chars(COMMON_ATS_KEYWORDS[k]))}
\* the distinct words of a job description longer than 4 characters
LongJdWords(jd) == {w \in WordsOf(Lower(jd)) : Len(w) > 4}
\* the part of them that occurs among the words of the resume, 0 of none
MatchRatio(t, jd) ==
  IF LongJdWords(jd) = {} THEN FracOfInt(0)
  ELSE Frac(Cardinality(LongJdWords(jd) \cap WordsOf(Lower(t))),
            Cardinality(LongJdWords(jd)))

\* C20: the keyword score is base = (common ATS keywords in the resume / 9)
\* * 100 without a job description and min(100, 0.4 * base + 0.6 *
\* matchRatio * 100) with one, matchRatio being the part of the distinct
\* job-description words longer than 4 characters that are resume words, 0
\* when there is none; it is always from 0 to 100
C20_KeywordScore ==
  pc = "done" =>
    LET base == FracMul(Frac(Cardinality(CommonKeywordsIn(text)), 9),
                        FracOfInt(100))
        with_jd == FracAdd(FracMul(Frac(4, 10), base),
                           FracMul(Frac(6, 10),
                                   FracMul(MatchRatio(text, job_description),
                                           FracOfInt(100))))
        keyword_score == ats.category_scores.keywords.score
    IN /\ FracIn(keyword_score, 0, 100)
       /\ IF Len(job_description) = 0 THEN FracEq(keyword_score, base)
          ELSE FracEq(keyword_score, FracMin(FracOfInt(100), with_jd))
\* a resume with some of the common keywords scored against a job
\* description it matches in part
C20_Witness ==
  /\ pc = "done"
  /\ Cardinality(CommonKeywordsIn(text)) \in 1..8
  /\ FracLt(FracOfInt(0), MatchRatio(text, job_description))
  /\ FracLt(MatchRatio(text, job_description), FracOfInt(1))
  /\ FracIn(ats.category_scores.keywords.score, 1, 99)


\* the calls of analyze_resume in the order it makes them
CallOrder ==
  <<"parse_file", "extract_skills", "extract_experience",
    "calculate_experience_years", "calculate_score", "analyze_skill_match",
    "done">>
\* the invocation has made the call named step and gone on
Made(call, step) ==
  /\ call.at # "failed"
  /\ \E i, j \in DOMAIN CallOrder :
       CallOrder[i] = step /\ CallOrder[j] = call.at /\ i < j
\* the skill gaps analyze_skill_match can return for a resume text and a job
\* description when nothing else runs
GapsAlone(resume_text, jd) ==
  LET resume == FlattenSkills(extract_skills(resume_text))
      required == FlattenSkills(extract_skills(jd))
  IN {analyze_skill_match(resume, required, missing_list, UploadClosePairs) :
        missing_list \in MissingOrders(resume, required)}

\* C16: the calls of the pipeline write no attribute of the shared
\* components, and whatever the order the calls of two invocations at once
\* are made in, each call of an invocation returns what it returns for the
\* invocation's own document and job description when run alone
C16_Stateless ==
  calls # <<>> =>
    /\ components = ComponentsInit
    /\ \A n \in DOMAIN calls :
         LET call == calls[n]
             alone == parse_file(ResumeParserInit, call.file)
         IN /\ call.at # "parse_file" => call.parsed_data = alone
            /\ call.at = "failed" => alone.outcome = "raised"
            /\ Made(call, "parse_file") =>
                 /\ alone.outcome = "returned"
                 /\ call.resume_text = alone.cleaned_text
            /\ Made(call, "extract_skills") =>
                 call.skills = extract_skills(alone.cleaned_text)
            /\ Made(call, "extract_experience") =>
                 call.experiences = extract_experience(alone.cleaned_text)
            /\ Made(call, "calculate_experience_years") =>
                 call.experience_years
                   = calculate_experience_years(alone.cleaned_text)
            /\ Made(call, "calculate_score") =>
                 call.ats_score = calculate_score(alone.cleaned_text,
                                                  call.job_description)
            /\ call.at = "done" =>
                 IF Len(call.job_description) > 0
                   THEN call.skill_gap \in GapsAlone(alone.cleaned_text,
                                                     call.job_description)
                   ELSE call.skill_gap = [total_required |-> 0]
\* one invocation has finished while another, on another document with other
\* skills, is in the middle of its calls
C16_Witness ==
  /\ calls # <<>>
  /\ calls[1].at = "done"
  /\ calls[2].at = "calculate_score"
  /\ calls[1].file # calls[2].file
  /\ calls[1].skills # <<>>
  /\ calls[2].skills # <<>>
  /\ calls[1].skills # calls[2].skills
  /\ calls[1].skill_gap.total_required > 0
  /\ calls[2].experiences # <<>>


\* the checks of generate_recommendations that fire on a resume and a
\* similarity, in the order of the claim, each with its message
FiringChecks(t, sim) ==
  LET words == WordCount(t)
      verbs == {"led", "managed", "developed", "created", "implemented",
                "designed", "achieved", "improved", "increased", "decreased"}
      checks ==
        <<[fires |-> sim < 30, message |-> TailorMessage],
          [fires |-> words < 200 \/ words > 800,
           message |-> IF words < 200 THEN BriefMessage ELSE LongMessage],
          [fires |-> \A i \in 1..Len(t) : ~IsDigit(t[i]),
           message |-> NumbersMessage],
          [fires |-> \A v \in verbs : ~Contains(Lower(t), Chars(v)),
           message |-> VerbsMessage]>>
      Fires(check) == check.fires
  IN SelectSeq(checks, Fires)

\* C21: generate_recommendations returns the messages of the checks that
\* fire (similarity under 0.3, word count under 200 or over 800, no digit,
\* no action verb) in that order, and the one affirmative message if and
\* only if none fires: the result is never empty, has at most 4 entries and
\* never holds the affirmative message beside a suggestion
C21_Recommendations ==
  pc = "done" =>
    LET firing == FiringChecks(text, similarity)
    IN /\ Len(recommendations) \in 1..4
       /\ IF firing = <<>>
            THEN recommendations = <<WellStructuredMessage>>
            ELSE /\ Len(recommendations) = Len(firing)
                 /\ \A k \in 1..Len(firing) :
                      recommendations[k] = firing[k].message
       /\ (\E k \in 1..Len(recommendations) :
             recommendations[k] = WellStructuredMessage)
            => Len(recommendations) = 1 /\ firing = <<>>
\* a resume of a fitting length with a digit and an action verb and a fair
\* similarity
C21_Witness ==
  /\ pc = "done"
  /\ similarity = 30
  /\ WordCount(text) = 800
  /\ recommendations = <<WellStructuredMessage>>


\* a line of a section is blank, or bears a date
BlankLine(line) == Strip(line) = <<>>
DateLine(line) ==
  \E p \in 1..Len(Strip(line)) : DateEnd(Strip(line), p) > 0
\* the lines behind the k-th that go into the description of the entry the
\* k-th line opens: those up to the next blank or date-bearing line
DescriptionAfter(lines, k) ==
  LET stops == {j \in (k + 1)..Len(lines) :
                  BlankLine(lines[j]) \/ DateLine(lines[j])}
      last == IF stops = {} THEN Len(lines) ELSE Least(stops) - 1
  IN [j \in 1..(last - k) |-> Strip(lines[k + j])]

\* C22: extract_experience returns one entry per date-bearing line of the
\* experience section, in text order: its raw_text is that line, its dates
\* are not empty, its description holds the lines that follow up to the
\* next blank or date-bearing line, and lines before any entry or after a
\* blank line are dropped; without an experience section it returns nothing
C22_ExperienceEntries ==
  pc = "done" =>
    IF section.none THEN experiences = <<>>
    ELSE LET lines == SplitOn(section.text, "\n")
             dated == SortedSeq({k \in 1..Len(lines) : DateLine(lines[k])})
         IN /\ Len(experiences) = Len(dated)
            /\ \A j \in 1..Len(dated) :
                 /\ experiences[j].raw_text = Strip(lines[dated[j]])
                 /\ Len(experiences[j].dates) >= 1
                 /\ experiences[j].description
                      = AsSeq(DescriptionAfter(lines, dated[j]))
\* two entries from a section of five lines, the first with one line of
\* description, the second opened by the last line
C22_Witness ==
  /\ pc = "done"
  /\ ~section.none
  /\ Len(experiences) = 2
  /\ Len(experiences[1].description) = 1
  /\ experiences[2].description = <<>>
  /\ Len(SplitOn(section.text, "\n")) = 5
  /\ experiences[2].raw_text = Strip(SplitOn(section.text, "\n")[5])


\* the number of date-bearing lines of the experience section of a raw text
DateLineCount(raw) ==
  LET found == find_section(raw, ExperienceKeywords)
      lines == IF found.none THEN <<>> ELSE SplitOn(found.text, "\n")
  IN Cardinality({k \in 1..Len(lines) : DateLine(lines[k])})

\* C23: in the pipeline, extract_experience on the text parse_file returns
\* gives N entries for an upload whose experience section has N >= 2
\* date-bearing lines on lines of their own
C23_PipelineEntries ==
  \A n \in DOMAIN calls :
    /\ Made(calls[n], "extract_experience")
    /\ DateLineCount(calls[n].file.read.text) >= 2
    => Len(calls[n].experiences) = DateLineCount(calls[n].file.read.text)


\* the keyword occurs in the text at position i as a whole word, the case
\* of the letters of the text left aside
WholeWordAt(t, keyword, i) ==
  /\ i + Len(keyword) - 1 <= Len(t)
  /\ \A j \in 1..Len(keyword) : LowerChar(t[i + j - 1]) = keyword[j]
  /\ WordBoundary(t, i)
  /\ WordBoundary(t, i + Len(keyword))
Occurrences(t, keyword) == {i \in 1..Len(t) : WholeWordAt(t, keyword, i)}
\* the section the claim describes for a text in which the k-th keyword is
\* the first, in list order, that occurs
SectionOfKeyword(t, k) ==
  LET start == Least(Occurrences(t, Chars(ExperienceKeywords[k])))
      headings == {p \in (start + 50)..Len(t) :
                     /\ t[p] = "\n"
                     /\ \E q \in (p + 11)..Len(t) :
                          /\ t[q] = "\n"
                          /\ \A i \in (p + 1)..(q - 1) :
                               t[i] \in UpperSet \cup SpaceSet}
  IN SubSeq(t, start, IF headings = {} THEN Len(t) ELSE Least(headings) - 1)

\* C24: _find_section returns None if and only if no keyword occurs in the
\* text as a whole word in any letter case; otherwise the section of the
\* first keyword in list order that occurs: from the first occurrence of
\* that keyword to the first heading-like line found 50 characters or more
\* behind it, or to the end of the text, a non-empty slice of the text
C24_FindSection ==
  pc = "done" =>
    LET occurring == {k \in 1..Len(ExperienceKeywords) :
                        Occurrences(text, Chars(ExperienceKeywords[k])) # {}}
    IN /\ section.none <=> occurring = {}
       /\ ~section.none =>
            /\ section.text # <<>>
            /\ section.text = SectionOfKeyword(text, Least(occurring))


\* the full texts of the first two matches of the phone pattern in a text
PhoneTexts(t) ==
  LET Starts(from) ==
        {s \in from..Len(t) :
           t[s] \in DigitSet \cup {"+", "("} /\ PhoneMatch(t, s).end > 0}
      Full(s) == SubSeq(t, s, PhoneMatch(t, s).end)
      first == Least(Starts(1))
      second == Least(Starts(PhoneMatch(t, first).end + 1))
  IN IF Starts(1) = {} THEN <<>>
     ELSE IF Starts(PhoneMatch(t, first).end + 1) = {} THEN <<Full(first)>>
     ELSE <<Full(first), Full(second)>>

\* C25: the metadata of a parsed document hold the first email match of the
\* cleaned text or none, the full texts of its first two phone matches at
\* most, in text order, and the first linkedin and github profile matches
\* or none
C25_Metadata ==
  pc = "done" /\ parsed.outcome = "returned" =>
    LET t == parsed.cleaned_text
        metadata == parsed.metadata
    IN /\ Len(metadata.emails) <= 1
       /\ metadata.emails = FirstEmail(t)
       /\ Len(metadata.phones) <= 2
       /\ metadata.phones = PhoneTexts(t)
       /\ metadata.linkedin = FirstProfile(t, Chars("linkedin.com/in/"))
       /\ metadata.github = FirstProfile(t, Chars("github.com/"))


\* C26: the temp file of an upload is deleted before its handler answers,
\* with HTTP 500 as well as on success: once every request is answered no
\* temp file is left
C26_TempFilesDeleted ==
  \A n \in DOMAIN requests :
    requests[n].at = "answered" => requests[n].tmp_file_path \notin temp_files



\* C27: the contact issues hold 'Complete contact information' only when
\* missing_contact is empty, that is when an email and a phone were both
\* found, and never hold a 'Missing: ...' entry together with it.
MissingIssues == {"Missing: email", "Missing: phone", "Missing: email, phone"}
C27_CompleteOnlyWhenNothingMissing ==
  pc = "done" =>
    LET issues == {contact.issues[k] : k \in DOMAIN contact.issues}
        complete == "Complete contact information" \in issues
    IN /\ complete => /\ contact.missing_contact = <<>>
                      /\ EmailFound(text)
                      /\ PhoneFound(text)
       /\ ~(complete /\ issues \cap MissingIssues # {})



\* C28: for every pair of skill lists, with duplicates and spellings that
\* differ in case only among them, total_matched plus the number of missing
\* skills is total_required, the match percentage lies in [0,100], and it is
\* 100 exactly when the required list is non-empty and nothing is missing.
C28_SkillMatchTotals ==
  pc = "done" =>
    /\ skill_gap.total_matched + Cardinality(skill_gap.missing_skills)
         = skill_gap.total_required
    /\ FracIn(skill_gap.match_percentage, 0, 100)
    /\ (FracEq(skill_gap.match_percentage, FracOfInt(100))
          <=> (Len(required_skills) > 0 /\ skill_gap.missing_skills = {}))



\* C29: the format score of the text parse_file hands on, clean_text of the
\* raw text, takes neither the deduction for special characters nor the one
\* for tabs: the cleaned text holds no character outside the kept class and
\* no tab, and its format score is 100 or 90.
C29_CleanFormat ==
  /\ (pc \in {"parsed", "scored"} /\ parsed.outcome = "returned") =>
       LET cleaned == parsed.cleaned_text
       IN /\ cleaned = clean_text(file.read.text)
          /\ \A i \in 1..Len(cleaned) : IsKept(cleaned[i]) /\ cleaned[i] # "\t"
          /\ FormatScore(cleaned).score \in {FracOfInt(100), FracOfInt(90)}
  /\ (pc = "scored" /\ "category_scores" \in DOMAIN ats) =>
       LET format == ats.category_scores.format
           issues == {format.issues[k] : k \in DOMAIN format.issues}
       IN /\ format = FormatScore(parsed.cleaned_text)
          /\ format.score \in {FracOfInt(100), FracOfInt(90)}
          /\ "Too many special characters" \notin issues
          /\ "Contains tabs (may indicate columns)" \notin issues
\* an upload whose raw text takes both deductions, scored 100 once cleaned
C29_Witness ==
  /\ pc = "scored"
  /\ "category_scores" \in DOMAIN ats
  /\ FormatScore(file.read.text).score = FracOfInt(75)
  /\ ats.category_scores.format.score = FracOfInt(100)



\* C30: over any sequence of calls on ModelLoader() handles, the handles are
\* one and the same instance; once a load of a name has succeeded, every
\* later load of that name before the next clear_cache constructs nothing
\* and returns the identical object; a failed load leaves the cache as it
\* was; and get_loaded_models returns exactly the names loaded successfully
\* since the last clear_cache.
IsLoad(k) == loads[k].call \in {"load_sentence_transformer", "load_spacy_model"}
LoadSucceeded(k) ==
  IsLoad(k) /\ loads[k].outcome = "returned" /\ loads[k].value # None
\* no clear_cache was called from call i to call k
SameEpoch(i, k) == \A j \in i..k : loads[j].call # "clear_cache"
\* the names loaded successfully before call k and since the last clear_cache
LoadedBefore(k) ==
  {loads[i].model_name : i \in {j \in 1..(k - 1) : LoadSucceeded(j) /\ SameEpoch(j, k)}}
ModelsBefore(k) == IF k = 1 THEN <<>> ELSE loads[k - 1].models
C30_ModelCache ==
  /\ \A k \in DOMAIN loads :
       loads[k].call = "ModelLoader" =>
         loads[k].value # None /\ loads[k].value = loader._instance
  /\ \A i, k \in DOMAIN loads :
       (i < k /\ LoadSucceeded(i) /\ IsLoad(k) /\ SameEpoch(i, k)
          /\ loads[i].model_name = loads[k].model_name) =>
         /\ ~loads[k].constructed
         /\ loads[k].outcome = "returned"
         /\ loads[k].value = loads[i].value
  /\ \A k \in DOMAIN loads :
       (IsLoad(k) /\ ~LoadSucceeded(k)) => loads[k].models = ModelsBefore(k)
  /\ \A k \in DOMAIN loads :
       loads[k].call = "get_loaded_models" =>
         /\ Range(loads[k].value) = LoadedBefore(k)
         /\ Len(loads[k].value) = Cardinality(LoadedBefore(k))
         /\ loads[k].models = ModelsBefore(k)
\* two handles; a load through one constructs the model, a load of the same
\* name through the other loader returns it, a load of another name fails,
\* and get_loaded_models names the one model
C30_Witness ==
  /\ Len(loads) = 5
  /\ loads[1].call = "ModelLoader"
  /\ loads[2].call = "load_sentence_transformer" /\ loads[2].constructed
  /\ loads[3].call = "load_spacy_model"
  /\ loads[3].model_name = loads[2].model_name
  /\ loads[3].value = loads[2].value
  /\ IsLoad(4) /\ ~LoadSucceeded(4)
  /\ loads[5].call = "get_loaded_models"
  /\ loads[5].value = <<loads[2].model_name>>

====
